---- MODULE Spec2Model ----
(***************************************************************************)
(* TODO Collector (src/main.ts): collection of unchecked tasks into an     *)
(* aggregate document, reconciliation of check marks back to the source    *)
(* documents, grouped rendering with manual order and decay, and the       *)
(* debounce / reentrancy-flag scheduling around them.                      *)
(*                                                                         *)
(* Strings are sequences of one-character strings, so that trimming, case  *)
(* folding, the regular expressions and String.prototype.replace are       *)
(* computed and not assumed.                                               *)
(***************************************************************************)
EXTENDS Integers, Sequences, FiniteSets, TLC

VARIABLES
    \* ---- plugin fields (src/main.ts:247-259) and the document store
    vault,                  \* the source documents, in getMarkdownFiles order
    output,                 \* the aggregate document
    previousCheckedItems,
    itemGroups,
    itemOrder,
    completedTimestamps,
    settings,
    saved,                  \* the record last handed to saveData
    now,                    \* Date.now(), in ticks (DayMs ticks to a day)
    edits,                  \* how many edits the user has made
    last,                   \* history: the last operation and what it saw
    \* ---- scheduling state of the event loop
    isUpdatingOutputFile,
    debounceTimer,          \* callback of the pending debounce, or "none"
    timers,                 \* the pending setTimeout callbacks, oldest first
    passes,                 \* the passes in flight, each at one of its awaits
    srcVersion,             \* changes made to the source documents so far
    aggVersion,             \* the srcVersion the aggregate was rendered from
    ghost,                  \* history: debounces owed, own write rescheduled,
                            \* the user's edit of the aggregate unread or lost
    \* ---- argument / result of a function applied on its own
    call,
    ret

dataVars  == <<vault, output, previousCheckedItems, itemGroups, itemOrder,
               completedTimestamps, settings, saved, now, edits, last>>
asyncVars == <<isUpdatingOutputFile, debounceTimer, timers,
               passes, srcVersion, aggVersion, ghost>>
callVars  == <<call, ret>>
vars      == <<dataVars, asyncVars, callVars>>

-----------------------------------------------------------------------------
(* Bounds of the model *)

\* longest task text drawn for getItemKey
MaxTextLen == 3

-----------------------------------------------------------------------------
(* JavaScript strings *)

WS == {" ", "\n", "\t"}

Upper == <<"A","B","C","D","E","F","G","H","I","J","K","L","M",
           "N","O","P","Q","R","S","T","U","V","W","X","Y","Z">>
Lower == <<"a","b","c","d","e","f","g","h","i","j","k","l","m",
           "n","o","p","q","r","s","t","u","v","w","x","y","z">>

Digit == <<"0","1","2","3","4","5","6","7","8","9">>

LowerOf == [c \in { Upper[i] : i \in 1..Len(Upper) } |->
              Lower[CHOOSE i \in 1..Len(Upper) : Upper[i] = c]]

LowerChar(c) == IF c \in DOMAIN LowerOf THEN LowerOf[c] ELSE c

\* String.prototype.toLowerCase
ToLowerCase(s) == [i \in 1..Len(s) |-> LowerChar(s[i])]

\* the text from its first character that is not whitespace
TrimStart(s) ==
    IF \A i \in 1..Len(s) : s[i] \in WS THEN <<>>
    ELSE SubSeq(s, CHOOSE i \in 1..Len(s) :
                      s[i] \notin WS /\ \A j \in 1..(i - 1) : s[j] \in WS,
                Len(s))

\* the text up to its last character that is not whitespace
TrimEnd(s) ==
    IF \A i \in 1..Len(s) : s[i] \in WS THEN <<>>
    ELSE SubSeq(s, 1, CHOOSE i \in 1..Len(s) :
                         s[i] \notin WS /\ \A j \in (i + 1)..Len(s) : s[j] \in WS)

\* String.prototype.trim
Trim(s) == TrimEnd(TrimStart(s))

SetMin(S) == CHOOSE x \in S : \A y \in S : x <= y
SetMax(S) == CHOOSE x \in S : \A y \in S : x >= y

MatchAt(s, p, i) == \A k \in 1..Len(p) : s[i + k - 1] = p[k]

\* String.prototype.indexOf, 1-based; 0 when absent
IndexOf(s, p) ==
    LET I == { i \in 1..(Len(s) - Len(p) + 1) : MatchAt(s, p, i) }
    IN  IF I = {} THEN 0 ELSE SetMin(I)

Includes(s, p) == IndexOf(s, p) # 0

StartsWith(s, p) == Len(s) >= Len(p) /\ SubSeq(s, 1, Len(p)) = p

\* String.prototype.split('\n'): the pieces between the line feeds
SplitLines(s) ==
    LET P      == { i \in 1..Len(s) : s[i] = "\n" }
        n      == Cardinality(P)
        pos(k) == CHOOSE i \in P : Cardinality({ j \in P : j < i }) = k - 1
    IN  [k \in 1..(n + 1) |->
            SubSeq(s, IF k = 1 THEN 1 ELSE pos(k - 1) + 1,
                      IF k = n + 1 THEN Len(s) ELSE pos(k) - 1)]

RECURSIVE Concat(_)
Concat(ss) == IF ss = <<>> THEN <<>> ELSE Head(ss) \o Concat(Tail(ss))

\* Array.prototype.join('\n')
RECURSIVE JoinLines(_)
JoinLines(ss) ==
    IF ss = <<>> THEN <<>>
    ELSE IF Len(ss) = 1 THEN ss[1]
    ELSE ss[1] \o <<"\n">> \o JoinLines(Tail(ss))

\* Number to decimal string, n >= 0
RECURSIVE IntToStr(_)
IntToStr(n) ==
    IF n < 10 THEN <<Digit[n + 1]>>
    ELSE IntToStr(n \div 10) \o <<Digit[(n % 10) + 1]>>

\* GetSubstitution of ECMAScript for a string pattern (no capture groups):
\* in the replacement text $$ is a dollar sign, $& the matched text, $` the
\* text before the match and $' the text after it; any other $ is literal.
RECURSIVE Substitute(_, _, _, _)
Substitute(repl, matched, before, after) ==
    IF repl = <<>> THEN <<>>
    ELSE IF Head(repl) = "$" /\ Len(repl) >= 2 /\ repl[2] \in {"$", "&", "`", "'"}
    THEN (CASE repl[2] = "$" -> <<"$">>
            [] repl[2] = "&" -> matched
            [] repl[2] = "`" -> before
            [] repl[2] = "'" -> after)
         \o Substitute(SubSeq(repl, 3, Len(repl)), matched, before, after)
    ELSE <<Head(repl)>> \o Substitute(Tail(repl), matched, before, after)

\* String.prototype.replace(pattern: string, replacement: string): the first
\* occurrence only, the replacement expanded by GetSubstitution
Replace(s, pat, repl) ==
    LET i == IndexOf(s, pat)
    IN  IF i = 0 THEN s
        ELSE LET before == SubSeq(s, 1, i - 1)
                 after  == SubSeq(s, i + Len(pat), Len(s))
             IN  before \o Substitute(repl, pat, before, after) \o after

-----------------------------------------------------------------------------
(* Item key *)

\* getItemKey: `${text} [[${source}]]`.toLowerCase().trim()
getItemKey(text, source) ==
    Trim(ToLowerCase(text \o <<" ", "[", "[">> \o source \o <<"]", "]">>))

-----------------------------------------------------------------------------
(* Literals of the aggregate format *)

UNCHECKED == <<"-", " ", "[", " ", "]", " ">>       \* "- [ ] "
CHECKED   == <<"-", " ", "[", "x", "]", " ">>       \* "- [x] "
NL        == <<"\n">>
RULE      == <<"-", "-", "-">>                      \* "---"
LinkOpen  == <<" ", "[", "[">>
LinkClose == <<"]", "]">>

\* TimeGroup and the fixed rendering order (groupOrder, src/main.ts:1070)
TimeGroup  == {"today", "tomorrow", "week", "backlog"}
groupOrder == <<"today", "tomorrow", "week", "backlog">>

TIME_GROUP_HEADERS(g) ==
    CASE g = "today"    -> <<"T","o","d","a","y">>
      [] g = "tomorrow" -> <<"T","o","m","o","r","r","o","w">>
      [] g = "week"     -> <<"N","e","x","t"," ","7"," ","D","a","y","s">>
      [] g = "backlog"  -> <<"B","a","c","k","l","o","g">>

\* HEADER_TO_GROUP[headerText] || null; "none" stands for null.  The table is
\* an object literal, so the lookup also finds what the object inherits: the
\* function Object for "constructor", Object.prototype for "__proto__"
HEADER_TO_GROUP(h) ==
    CASE h = <<"t","o","d","a","y">>                             -> "today"
      [] h = <<"t","o","m","o","r","r","o","w">>                 -> "tomorrow"
      [] h = <<"n","e","x","t"," ","7"," ","d","a","y","s">>     -> "week"
      [] h = <<"b","a","c","k","l","o","g">>                     -> "backlog"
      [] h = <<"c","o","n","s","t","r","u","c","t","o","r">>     -> "Object"
      [] h = <<"_","_","p","r","o","t","o","_","_">>             -> "Object.prototype"
      [] OTHER                                                   -> "none"

\* DEFAULT_SETTINGS.checkedSectionHeader
CheckedSectionHeader == <<"C","o","m","p","l","e","t","e","d">>

-----------------------------------------------------------------------------
(* The line patterns.  A match is [ok |-> BOOLEAN, g |-> captured text]. *)

NoMatch == [ok |-> FALSE, g |-> <<>>]

SkipDash(s) == IF s # <<>> /\ Head(s) = "-" THEN Tail(s) ELSE s     \* -?

\* \s*(.+)$ after a matched prefix: rest must hold a character; the greedy
\* \s* leaves the blank tail to the group only when nothing else is left
RestGroup(rest) ==
    IF rest = <<>> THEN NoMatch
    ELSE [ok |-> TRUE,
          g  |-> IF TrimStart(rest) # <<>> THEN TrimStart(rest)
                 ELSE <<rest[Len(rest)]>>]

\* /^-?\s*-?\s*\[x\]\s*(.+)$/i
CheckedMatch(t) ==
    LET r == TrimStart(SkipDash(TrimStart(SkipDash(t))))
    IN  IF Len(r) >= 3 /\ r[1] = "[" /\ r[2] \in {"x", "X"} /\ r[3] = "]"
        THEN RestGroup(SubSeq(r, 4, Len(r)))
        ELSE NoMatch

\* /^-?\s*\[ \]\s*(.+)$/
UncheckedMatch(t) ==
    LET r == TrimStart(SkipDash(t))
    IN  IF Len(r) >= 3 /\ r[1] = "[" /\ r[2] = " " /\ r[3] = "]"
        THEN RestGroup(SubSeq(r, 4, Len(r)))
        ELSE NoMatch

\* /^(\s*)- \[ \] (.+)$/gm on one line of a source document
uncheckedPattern(line) ==
    LET r == TrimStart(line)
    IN  IF StartsWith(r, UNCHECKED) /\ Len(r) > Len(UNCHECKED)
        THEN [ok |-> TRUE, g |-> SubSeq(r, Len(UNCHECKED) + 1, Len(r))]
        ELSE NoMatch

\* /^(.+)\s+\[\[([^\]]+)\]\]$/: the greedy first group puts the backlink as
\* far right as it can be.  [ok, task |-> match[1], source |-> match[2]]
BacklinkMatch(item) ==
    LET n == Len(item)
        C == { i \in 2..(n - 5) :
                 /\ item[i] \in WS
                 /\ item[i + 1] = "[" /\ item[i + 2] = "["
                 /\ item[n - 1] = "]" /\ item[n] = "]"
                 /\ \A j \in (i + 3)..(n - 2) : item[j] # "]" }
    IN  IF C = {} THEN [ok |-> FALSE, task |-> <<>>, source |-> <<>>]
        ELSE LET i == SetMax(C)
             IN  [ok |-> TRUE, task |-> SubSeq(item, 1, i - 1),
                  source |-> SubSeq(item, i + 3, n - 2)]

IsDigit(c) == \E i \in 1..Len(Digit) : Digit[i] = c

\* .replace(/\s*\(\d+\)$/, ''): a trailing " (<count>)" is cut off
StripCount(h) ==
    LET n == Len(h)
        O == { i \in 1..(n - 2) :
                 /\ h[i] = "(" /\ h[n] = ")"
                 /\ \A j \in (i + 1)..(n - 1) : IsDigit(h[j]) }
    IN  IF O = {} THEN h
        ELSE TrimEnd(SubSeq(h, 1, SetMin(O) - 1))

-----------------------------------------------------------------------------
(* Collector *)

\* a folder excludes every path it is a string prefix of
isExcluded_Prefix(file, cfg) ==
    \E k \in 1..Len(cfg.excludeFolders) :
        /\ cfg.excludeFolders[k] # <<>>
        /\ StartsWith(file.path, cfg.excludeFolders[k])

\* isExcluded: a non-empty folder that is the path or a prefix folder + "/"
isExcluded(file, cfg) ==
    \E k \in 1..Len(cfg.excludeFolders) :
        LET folder == cfg.excludeFolders[k]
        IN  /\ folder # <<>>
            /\ (StartsWith(file.path, folder \o <<"/">>) \/ file.path = folder)

\* the matches of uncheckedPattern in one document, in line order
RECURSIVE LineTodos(_, _)
LineTodos(lines, basename) ==
    IF lines = <<>> THEN <<>>
    ELSE LET m == uncheckedPattern(Head(lines))
         IN  (IF m.ok THEN <<[text |-> Trim(m.g), sourceBasename |-> basename]>>
              ELSE <<>>)
             \o LineTodos(Tail(lines), basename)

\* the aggregate is read like any other document
RECURSIVE collectTodos_All(_, _)
collectTodos_All(files, cfg) ==
    IF files = <<>> THEN <<>>
    ELSE LET file == Head(files)
         IN  (IF isExcluded(file, cfg) THEN <<>>
              ELSE LineTodos(SplitLines(file.content), file.basename))
             \o collectTodos_All(Tail(files), cfg)

\* collectTodos: documents in enumeration order, the aggregate and the
\* excluded ones skipped
RECURSIVE collectTodos(_, _)
collectTodos(files, cfg) ==
    IF files = <<>> THEN <<>>
    ELSE LET file == Head(files)
         IN  (IF file.path = cfg.outputFilePath \/ isExcluded(file, cfg) THEN <<>>
              ELSE LineTodos(SplitLines(file.content), file.basename))
             \o collectTodos(Tail(files), cfg)

-----------------------------------------------------------------------------
(* Write-back of a check mark to the source document *)

\* metadataCache.getFirstLinkpathDest(sourceName, ''): the index of the first
\* document with that base name, 0 when the link resolves to nothing
getFirstLinkpathDest(files, sourceName) ==
    LET I == { i \in 1..Len(files) : files[i].basename = sourceName }
    IN  IF I = {} THEN 0 ELSE SetMin(I)

\* content.replace(`- [ ] ${taskText}`, `- [x] ${taskText}`) and its reverse
RewriteContent(content, taskText, checked) ==
    IF checked
    THEN Replace(content, UNCHECKED \o taskText, CHECKED \o taskText)
    ELSE Replace(content, CHECKED \o taskText, UNCHECKED \o taskText)

\* the end of updateSourceTask, from `if (newContent !== content)`
updateSourceTask_write(files, f, taskText, newContent) ==
    [files |-> IF newContent # files[f].content
               THEN [files EXCEPT ![f].content = newContent]
               ELSE files,
     file  |-> f,
     task  |-> taskText,
     wrote |-> newContent # files[f].content]

\* updateSourceTask once the link is resolved to document f (0: to none)
updateSourceTask_file(files, f, taskText, checked) ==
    IF f = 0
    THEN [files |-> files, file |-> 0, task |-> <<>>, wrote |-> FALSE]
    ELSE updateSourceTask_write(files, f, taskText,
                                RewriteContent(files[f].content, taskText, checked))

\* updateSourceTask once the item is matched
updateSourceTask_match(files, m, checked) ==
    updateSourceTask_file(files,
                          IF m.ok THEN getFirstLinkpathDest(files, m.source) ELSE 0,
                          Trim(m.task), checked)

\* updateSourceTask: [files |-> the documents afterwards,
\*                    file  |-> index of the document read (0: none),
\*                    task  |-> taskText, wrote |-> whether modify was called]
updateSourceTask(files, item, checked) ==
    updateSourceTask_match(files, BacklinkMatch(item), checked)

-----------------------------------------------------------------------------
(* Maps (Map<string, _> and Record<string, _>) *)

EmptyMap == [k \in {} |-> 0]

SetKey(f, k, v) == [x \in (DOMAIN f) \cup {k} |-> IF x = k THEN v ELSE f[x]]

DeleteKey(f, k) == [x \in (DOMAIN f) \ {k} |-> f[x]]

\* f[k] is there and is not 0 (the `if (value)` test of a number)
Truthy(f, k) == k \in DOMAIN f /\ f[k] # 0

Range(s) == { s[i] : i \in 1..Len(s) }

\* Array.prototype.indexOf, 1-based; 0 when absent
ArrayIndexOf(s, x) ==
    LET I == { i \in 1..Len(s) : s[i] = x }
    IN  IF I = {} THEN 0 ELSE SetMin(I)

\* Array.prototype.filter(k => k !== x)
Without(s, x) == SelectSeq(s, LAMBDA k : k # x)

-----------------------------------------------------------------------------
(* Formatter *)

\* a day, in clock ticks (dayMs, src/main.ts:1100)
DayMs == 2

\* item.toLowerCase().trim()
LowerTrim(item) == Trim(ToLowerCase(item))

\* a key made of the task text alone, the backlink left out
TimestampKey_TextOnly(item) ==
    LET m == BacklinkMatch(item)
    IN  IF m.ok THEN LowerTrim(m.task) ELSE LowerTrim(item)

\* the key of completedTimestamps: the checked line's whole text
TimestampKey(item) == LowerTrim(item)

\* an item of no category is put under the first one
GroupOf_Today(groups, key) == IF key \in DOMAIN groups THEN groups[key] ELSE "today"

\* this.itemGroups.get(itemKey) || 'backlog'
GroupOf(groups, key) == IF key \in DOMAIN groups THEN groups[key] ELSE "backlog"

\* `- [ ] ${todo.text} [[${todo.sourceBasename}]]`
TodoLine(todo) ==
    UNCHECKED \o todo.text \o LinkOpen \o todo.sourceBasename \o LinkClose

\* every collected item is taken as active
ActiveTodos_All(todos, checkedItems) == todos

\* the todos whose key is not among the lower-cased checked items
ActiveTodos(todos, checkedItems) ==
    LET checkedSet == { LowerTrim(checkedItems[i]) : i \in 1..Len(checkedItems) }
    IN  SelectSeq(todos,
                  LAMBDA todo : getItemKey(todo.text, todo.sourceBasename) \notin checkedSet)

\* the rank with indexOf's "absent" left as it is, below every index
OrderPos_Raw(order, key) == ArrayIndexOf(order, key)

\* indexA === -1 ? Infinity : indexA.  Len(order) + 1 stands for Infinity:
\* above every index, and the difference of two of them is no order (NaN)
OrderPos(order, key) ==
    LET i == ArrayIndexOf(order, key)
    IN  IF i = 0 THEN Len(order) + 1 ELSE i

\* x put behind the items of the sorted front whose rank is not greater
InsertByOrder(front, x, order) ==
    LET k == Cardinality({ j \in 1..Len(front) :
                 OrderPos(order, front[j].key) - OrderPos(order, x.key) <= 0 })
    IN  SubSeq(front, 1, k) \o <<x>> \o SubSeq(front, k + 1, Len(front))

\* groups[group].sort((a, b) => posA - posB): the sort is stable
RECURSIVE SortByOrder(_, _)
SortByOrder(items, order) ==
    IF Len(items) <= 1 THEN items
    ELSE InsertByOrder(SortByOrder(SubSeq(items, 1, Len(items) - 1), order),
                       items[Len(items)], order)

\* if (order.length > 0) groups[group].sort(...)
SortGroup(mine, order) ==
    IF Len(order) > 0 THEN SortByOrder(mine, order) ELSE mine

\* the GroupedItems of one group, in the order they are rendered
GroupItems(active, g, groups, order) ==
    SortGroup(SelectSeq(
                  [i \in 1..Len(active) |->
                      [key  |-> getItemKey(active[i].text, active[i].sourceBasename),
                       line |-> TodoLine(active[i])]],
                  LAMBDA it : GroupOf(groups, it.key) = g),
              order[g])

\* the count is written behind every header, also when it is zero
GroupSection_Counted(g, items) ==
    <<"#", "#", " ">> \o TIME_GROUP_HEADERS(g)
        \o <<" ", "(">> \o IntToStr(Len(items)) \o <<")">> \o NL \o NL
        \o (IF Len(items) > 0
            THEN JoinLines([i \in 1..Len(items) |-> items[i].line]) \o NL
            ELSE <<>>)
        \o NL

\* one "## <header> (<count>)" section
GroupSection(g, items) ==
    LET count    == Len(items)
        countStr == IF count > 0 THEN <<" ", "(">> \o IntToStr(count) \o <<")">>
                    ELSE <<>>
    IN  <<"#", "#", " ">> \o TIME_GROUP_HEADERS(g) \o countStr \o NL \o NL
        \o (IF count > 0
            THEN JoinLines([i \in 1..count |-> items[i].line]) \o NL
            ELSE <<>>)
        \o NL

\* the item is kept one day too long
StillActive_Late(daysLeft) == daysLeft >= 0

\* if (daysLeft > 0) keep the item, else it has decayed
StillActive(daysLeft) == daysLeft > 0

\* an item that has no timestamp is dropped like a decayed one
DecayStep_DropUnstamped(item, ts, cfg, t) ==
    IF ~(cfg.decayDays > 0)
    THEN [ts |-> ts, keep |-> <<[item |-> item, daysLeft |-> -1]>>]
    ELSE IF Truthy(ts, TimestampKey(item))
            /\ StillActive(cfg.decayDays - ((t - ts[TimestampKey(item)]) \div DayMs))
    THEN [ts |-> ts,
          keep |-> <<[item |-> item,
                      daysLeft |-> cfg.decayDays
                                     - ((t - ts[TimestampKey(item)]) \div DayMs)]>>]
    ELSE [ts |-> DeleteKey(ts, TimestampKey(item)), keep |-> <<>>]

\* one iteration of the loop over checkedItems of the grouped completed
\* section: [ts |-> completedTimestamps afterwards, keep |-> what it pushed]
DecayStep(item, ts, cfg, t) ==
    LET itemKey == TimestampKey(item)
    IN  IF ~(cfg.decayDays > 0)
        THEN [ts |-> ts, keep |-> <<[item |-> item, daysLeft |-> -1]>>]
        ELSE IF Truthy(ts, itemKey)
        THEN LET daysSinceCompleted == (t - ts[itemKey]) \div DayMs
                 daysLeft == cfg.decayDays - daysSinceCompleted
             IN  IF StillActive(daysLeft)
                 THEN [ts |-> ts,
                       keep |-> <<[item |-> item, daysLeft |-> daysLeft]>>]
                 ELSE [ts |-> DeleteKey(ts, itemKey), keep |-> <<>>]
        ELSE [ts |-> SetKey(ts, itemKey, t),
              keep |-> <<[item |-> item, daysLeft |-> cfg.decayDays]>>]

DecayJoin(step, rest) == [ts |-> rest.ts, active |-> step.keep \o rest.active]

\* the loop: [ts |-> completedTimestamps afterwards,
\*            active |-> activeCheckedItems]
RECURSIVE DecayScan(_, _, _, _)
DecayRest(step, items, cfg, t) ==
    DecayJoin(step, DecayScan(items, step.ts, cfg, t))

DecayScan(items, ts, cfg, t) ==
    IF items = <<>> THEN [ts |-> ts, active |-> <<>>]
    ELSE DecayRest(DecayStep(Head(items), ts, cfg, t), Tail(items), cfg, t)

\* one line of the grouped completed section
CheckedLine(a, cfg) ==
    IF cfg.showDecayCountdown /\ cfg.decayDays > 0 /\ a.daysLeft > 0
    THEN CHECKED \o a.item \o <<" ", "(">>
         \o (IF a.daysLeft = 1
             THEN <<"1", " ", "d", "a", "y", " ", "l", "e", "f", "t">>
             ELSE IntToStr(a.daysLeft) \o <<" ", "d", "a", "y", "s", " ", "l", "e", "f", "t">>)
         \o <<")">> \o NL
    ELSE CHECKED \o a.item \o NL

\* the flat branch of formatOutputWithChecked
FormatFlat(activeTodos, checkedItems, cfg, ts) ==
    [output |->
        Concat([i \in 1..Len(activeTodos) |-> TodoLine(activeTodos[i]) \o NL])
        \o (IF cfg.showCheckedSection /\ Len(checkedItems) > 0
            THEN <<"\n","\n","\n","\n","\n","\n","\n","\n">> \o RULE \o NL
                 \o CheckedSectionHeader \o NL \o NL
                 \o Concat([i \in 1..Len(checkedItems) |->
                               CHECKED \o checkedItems[i] \o NL])
            ELSE <<>>),
     ts |-> ts, threw |-> FALSE]

\* the four sections of the grouped branch
Sections(activeTodos, groups, order) ==
    Concat([i \in 1..Len(groupOrder) |->
              GroupSection(groupOrder[i],
                           GroupItems(activeTodos, groupOrder[i], groups, order))])

\* the completed section behind the four sections
FormatCompleted(sections, scan, cfg) ==
    [output |->
        sections
        \o (IF Len(scan.active) > 0
            THEN NL \o NL \o RULE \o NL \o CheckedSectionHeader \o NL \o NL
                 \o Concat([i \in 1..Len(scan.active) |->
                               CheckedLine(scan.active[i], cfg)])
            ELSE <<>>),
     ts |-> scan.ts, threw |-> FALSE]

\* the grouped branch of formatOutputWithChecked
FormatGrouped(activeTodos, checkedItems, cfg, groups, order, ts, t) ==
    FormatCompleted(Sections(activeTodos, groups, order),
                    IF cfg.showCheckedSection /\ Len(checkedItems) > 0
                    THEN DecayScan(checkedItems, ts, cfg, t)
                    ELSE [ts |-> ts, active |-> <<>>],
                    cfg)

\* formatOutputWithChecked:
\* [output |-> the text, ts |-> completedTimestamps afterwards, threw].
\* groups[group].push throws a TypeError when the group of an active item is
\* not one of the four categories: nothing is rendered, no timestamp touched
formatOutputWithChecked(todos, checkedItems, cfg, groups, order, ts, t) ==
    IF ~cfg.enableTimeGroups
    THEN FormatFlat(ActiveTodos(todos, checkedItems), checkedItems, cfg, ts)
    ELSE IF \E todo \in Range(ActiveTodos(todos, checkedItems)) :
               GroupOf(groups, getItemKey(todo.text, todo.sourceBasename)) \notin TimeGroup
    THEN [output |-> <<>>, ts |-> ts, threw |-> TRUE]
    ELSE FormatGrouped(ActiveTodos(todos, checkedItems), checkedItems, cfg,
                       groups, order, ts, t)

\* formatOutput(todos): no checked items
formatOutput(todos, cfg, groups, order, ts, t) ==
    formatOutputWithChecked(todos, <<>>, cfg, groups, order, ts, t)

-----------------------------------------------------------------------------
(* Reconciler *)

\* the state of the line loop of processCheckedItems
ScanStart(groups) ==
    [currentSection |-> "none", groupsChanged |-> FALSE,
     inFrontmatter |-> FALSE, frontmatterDone |-> FALSE,
     checkedItems |-> <<>>, groups |-> groups]

\* one iteration of `for (const line of lines)`
ScanLine(line, st, cfg) ==
    LET trimmed == Trim(line)
    IN  IF trimmed = <<>> THEN st
        ELSE IF trimmed = RULE
        THEN IF ~st.frontmatterDone
             THEN [st EXCEPT !.inFrontmatter = ~st.inFrontmatter,
                             !.frontmatterDone = st.inFrontmatter]
             ELSE [st EXCEPT !.currentSection = "none"]
        ELSE IF st.inFrontmatter THEN st
        ELSE IF cfg.enableTimeGroups /\ StartsWith(trimmed, <<"#", "#", " ">>)
        THEN [st EXCEPT !.currentSection =
                 HEADER_TO_GROUP(StripCount(ToLowerCase(SubSeq(trimmed, 4, Len(trimmed)))))]
        ELSE IF CheckedMatch(trimmed).ok
        THEN [st EXCEPT !.checkedItems = Append(@, Trim(CheckedMatch(trimmed).g))]
        ELSE IF cfg.enableTimeGroups /\ st.currentSection # "none"
                /\ UncheckedMatch(trimmed).ok
        THEN LET itemKey == ToLowerCase(Trim(UncheckedMatch(trimmed).g))
             IN  IF itemKey \in DOMAIN st.groups
                    /\ st.groups[itemKey] = st.currentSection
                 THEN st
                 ELSE [st EXCEPT !.groups = SetKey(@, itemKey, st.currentSection),
                                 !.groupsChanged = TRUE]
        ELSE st

RECURSIVE ScanLines(_, _, _)
ScanLines(lines, st, cfg) ==
    IF lines = <<>> THEN st
    ELSE ScanLines(Tail(lines), ScanLine(Head(lines), st, cfg), cfg)

\* the body of the two diff loops.  acc is [files, ts, rewrites]; rewrites
\* lists every call of updateSourceTask with the content it read and left
SyncResult(acc, item, checked, t, u) ==
    LET itemKey == TimestampKey(item)
    IN  [files |-> u.files,
         ts    |-> IF checked
                   THEN (IF Truthy(acc.ts, itemKey) THEN acc.ts
                         ELSE SetKey(acc.ts, itemKey, t))
                   ELSE DeleteKey(acc.ts, itemKey),
         rewrites |-> Append(acc.rewrites,
                        [item |-> item, checked |-> checked, file |-> u.file,
                         task |-> u.task,
                         before |-> IF u.file = 0 THEN <<>> ELSE acc.files[u.file].content,
                         after  |-> IF u.file = 0 THEN <<>> ELSE u.files[u.file].content])]

SyncOne(acc, item, checked, t) ==
    SyncResult(acc, item, checked, t, updateSourceTask(acc.files, item, checked))

\* for (const item of items) if (!other.has(item)) ...
RECURSIVE SyncLoop(_, _, _, _, _)
SyncLoop(items, other, acc, checked, t) ==
    IF items = <<>> THEN acc
    ELSE SyncLoop(Tail(items), other,
                  IF Head(items) \in other THEN acc
                  ELSE SyncOne(acc, Head(items), checked, t),
                  checked, t)

\* processCheckedItems from the read of the aggregate to the text it
\* writes, one stage handing its result to the next:
\* the line loop, the newly-checked loop, the newly-unchecked loop, the render
ReconcileResult(scan, acc1, acc2, fmt) ==
    [files |-> acc2.files,
     checkedItems |-> scan.checkedItems,
     groups |-> scan.groups,
     groupsChanged |-> scan.groupsChanged,
     tsChecked |-> acc1.ts,
     tsSync |-> acc2.ts,
     rewrites |-> acc2.rewrites,
     ts |-> fmt.ts,
     output |-> fmt.output,
     threw |-> fmt.threw]

ReconcileRender(scan, acc1, acc2, cfg, order, t) ==
    ReconcileResult(scan, acc1, acc2,
        formatOutputWithChecked(collectTodos(acc2.files, cfg), scan.checkedItems,
                                cfg, scan.groups, order, acc2.ts, t))

ReconcileUnchecked(scan, acc1, prev, cfg, order, t) ==
    ReconcileRender(scan, acc1,
        SyncLoop(prev, Range(scan.checkedItems), acc1, FALSE, t),
        cfg, order, t)

ReconcileChecked(scan, files, prev, cfg, order, ts, t) ==
    ReconcileUnchecked(scan,
        SyncLoop(scan.checkedItems, Range(prev),
                 [files |-> files, ts |-> ts, rewrites |-> <<>>], TRUE, t),
        prev, cfg, order, t)

ReconcilePass(content, files, prev, cfg, groups, order, ts, t) ==
    ReconcileChecked(ScanLines(SplitLines(content), ScanStart(groups), cfg),
                     files, prev, cfg, order, ts, t)

-----------------------------------------------------------------------------
(* Values of the variables a specification does not use *)

NoOutput == [exists |-> FALSE, content |-> <<>>]
NoOrder  == [today |-> <<>>, tomorrow |-> <<>>, week |-> <<>>, backlog |-> <<>>]
NoLast   == [op |-> "none", before |-> "none", groups |-> EmptyMap,
             vault |-> <<>>, output |-> <<>>, prev |-> <<>>,
             checkedItems |-> <<>>, rewrites |-> <<>>,
             tsBefore |-> EmptyMap, tsChecked |-> EmptyMap, tsSync |-> EmptyMap]
NoCall   == [fn |-> "none"]
NoRet    == [done |-> FALSE]
NoGhost  == [process |-> FALSE, collect |-> FALSE, self |-> FALSE,
             threw |-> FALSE, rejected |-> FALSE, edit |-> "none"]

\* DEFAULT_SETTINGS, with the output path "T.md"
DefaultSettings ==
    [outputFilePath |-> <<"T", ".", "m", "d">>, excludeFolders |-> <<>>,
     showCheckedSection |-> TRUE, enableTimeGroups |-> FALSE,
     decayDays |-> 0, showDecayCountdown |-> TRUE]

\* the record saveSettings hands to saveData; JSON leaves out an entry whose
\* value is a function
Persisted(groups, order, ts) ==
    [itemGroups |-> [k \in { x \in DOMAIN groups : groups[x] # "Object" } |-> groups[k]],
     itemOrder |-> order, completedTimestamps |-> ts]

DataIdle ==
    /\ vault = <<>>
    /\ output = NoOutput
    /\ previousCheckedItems = <<>>
    /\ itemGroups = EmptyMap
    /\ itemOrder = NoOrder
    /\ completedTimestamps = EmptyMap
    /\ settings = DefaultSettings
    /\ saved = Persisted(EmptyMap, NoOrder, EmptyMap)
    /\ now = 1
    /\ edits = 0
    /\ last = NoLast

AsyncIdle ==
    /\ isUpdatingOutputFile = FALSE
    /\ debounceTimer = "none"
    /\ timers = <<>>
    /\ passes = <<>>
    /\ srcVersion = 0
    /\ aggVersion = 0
    /\ ghost = NoGhost

CallIdle == call = NoCall /\ ret = NoRet

-----------------------------------------------------------------------------
(* getItemKey applied to bounded texts *)

KeyAlphabet == {" ", "a", "A"}

RECURSIVE TextsUpTo(_)
TextsUpTo(n) ==
    IF n = 0 THEN {<<>>}
    ELSE LET shorter == TextsUpTo(n - 1)
         IN  shorter \cup { Append(t, c) : t \in shorter, c \in KeyAlphabet }

KeySources == {<<"N">>, <<"n", "b">>}

KeyInit ==
    /\ DataIdle /\ AsyncIdle
    /\ call \in { [fn |-> "getItemKey", text |-> t, source |-> src] :
                    t \in TextsUpTo(MaxTextLen), src \in KeySources }
    /\ ret = NoRet

CallGetItemKey ==
    /\ call.fn = "getItemKey" /\ ~ret.done
    /\ ret' = [done |-> TRUE, key |-> getItemKey(call.text, call.source)]
    /\ UNCHANGED <<call, dataVars, asyncVars>>

KeyNext == CallGetItemKey

SpecKey == KeyInit /\ [][KeyNext]_vars

\* C7 (as claimed): the key of (t, s) is the key of (t2, s) for every t2 that
\* is t with letter case changed, or t with leading and/or trailing
\* whitespace added.
C7_KeyStability ==
    ret.done =>
        /\ \A t2 \in TextsUpTo(MaxTextLen) :
             /\ ToLowerCase(t2) = ToLowerCase(call.text)
                   => getItemKey(t2, call.source) = ret.key
             /\ Trim(t2) = Trim(call.text) /\ Len(t2) >= Len(call.text)
                   => getItemKey(t2, call.source) = ret.key

-----------------------------------------------------------------------------
(* The plugin on a small vault: every pass runs from start to end *)

\* edits the user makes to the documents
MaxEdits == 3

\* the documents of the vault, in getMarkdownFiles order
File(path, basename, content) ==
    [path |-> path, basename |-> basename, content |-> content]

InitVault ==
    << File(<<"N", ".", "m", "d">>, <<"N">>,
            UNCHECKED \o <<"a", "$", "$">> \o NL \o UNCHECKED \o <<"a">>),
       File(<<"M", ".", "m", "d">>, <<"M">>,
            UNCHECKED \o <<"a">>) >>

InitSettings ==
    { [DefaultSettings EXCEPT !.enableTimeGroups = g] : g \in BOOLEAN }

Init ==
    /\ vault = InitVault
    /\ output = NoOutput
    /\ previousCheckedItems = <<>>
    /\ itemGroups = EmptyMap
    /\ itemOrder = NoOrder
    /\ completedTimestamps = EmptyMap
    /\ settings \in InitSettings
    /\ saved = Persisted(EmptyMap, NoOrder, EmptyMap)
    /\ now = 1
    /\ edits = 0
    /\ last = NoLast
    /\ AsyncIdle /\ CallIdle

\* the check box of a task line turned the other way by the user
ToggleLine(line) ==
    IF StartsWith(line, UNCHECKED)
    THEN CHECKED \o SubSeq(line, Len(UNCHECKED) + 1, Len(line))
    ELSE UNCHECKED \o SubSeq(line, Len(CHECKED) + 1, Len(line))

IsTaskLine(line) == StartsWith(line, UNCHECKED) \/ StartsWith(line, CHECKED)

\* the user ticks or unticks a task in the aggregate document
UserToggleOutput ==
    /\ edits < MaxEdits
    /\ edits' = edits + 1
    /\ output.exists
    /\ LET lines == SplitLines(output.content)
       IN  \E i \in 1..Len(lines) :
             /\ IsTaskLine(lines[i])
             /\ output' = [output EXCEPT !.content =
                              JoinLines([lines EXCEPT ![i] = ToggleLine(lines[i])])]
    /\ last' = [NoLast EXCEPT !.op = "edit"]
    /\ UNCHANGED <<vault, previousCheckedItems, itemGroups, itemOrder,
                   completedTimestamps, settings, saved, now>>
    /\ UNCHANGED <<asyncVars, callVars>>

\* the user ticks or unticks a task in a source document
UserToggleSource ==
    /\ edits < MaxEdits
    /\ edits' = edits + 1
    /\ \E f \in 1..Len(vault) :
         LET lines == SplitLines(vault[f].content)
         IN  \E i \in 1..Len(lines) :
               /\ IsTaskLine(lines[i])
               /\ vault' = [vault EXCEPT ![f].content =
                               JoinLines([lines EXCEPT ![i] = ToggleLine(lines[i])])]
    /\ last' = [NoLast EXCEPT !.op = "edit"]
    /\ UNCHANGED <<output, previousCheckedItems, itemGroups, itemOrder,
                   completedTimestamps, settings, saved, now>>
    /\ UNCHANGED <<asyncVars, callVars>>

\* what processCheckedItems leaves behind
ApplyReconcile(r) ==
    /\ vault' = r.files
    /\ previousCheckedItems' = r.checkedItems
    /\ itemGroups' = r.groups
    /\ completedTimestamps' = r.ts
    /\ saved' = IF r.groupsChanged
                THEN Persisted(r.groups, itemOrder, r.tsSync)
                ELSE saved
    /\ output' = IF r.threw THEN output
                 ELSE [exists |-> TRUE, content |-> r.output]
    /\ last' = [op |-> "process", before |-> last.op,
                groups |-> itemGroups,
                vault |-> vault, output |-> output.content,
                prev |-> previousCheckedItems,
                checkedItems |-> r.checkedItems, rewrites |-> r.rewrites,
                tsBefore |-> completedTimestamps,
                tsChecked |-> r.tsChecked, tsSync |-> r.tsSync]

\* processCheckedItems, run to its end
ProcessCheckedItems ==
    /\ output.exists
    /\ ApplyReconcile(ReconcilePass(output.content, vault, previousCheckedItems,
                                    settings, itemGroups, itemOrder,
                                    completedTimestamps, now))
    /\ UNCHANGED <<itemOrder, settings, now, edits>>
    /\ UNCHANGED <<asyncVars, callVars>>

\* what collectAndWriteTodos leaves behind
ApplyCollect(fmt) ==
    /\ output' = IF fmt.threw THEN output
                 ELSE [exists |-> TRUE, content |-> fmt.output]
    /\ completedTimestamps' = fmt.ts

\* collectAndWriteTodos, run to its end; getMarkdownFiles enumerates the
\* aggregate too, once it exists
CollectAndWriteTodos ==
    /\ ApplyCollect(formatOutput(
           collectTodos(vault \o (IF output.exists
                                  THEN <<File(settings.outputFilePath, <<"T">>,
                                              output.content)>>
                                  ELSE <<>>),
                        settings),
           settings, itemGroups, itemOrder, completedTimestamps, now))
    /\ last' = [NoLast EXCEPT !.op = "collect", !.before = last.op,
                              !.output = IF output.exists THEN output.content
                                         ELSE <<>>]
    /\ UNCHANGED <<vault, previousCheckedItems, itemGroups, itemOrder,
                   settings, saved, now, edits>>
    /\ UNCHANGED <<asyncVars, callVars>>

Next ==
    \/ UserToggleOutput
    \/ UserToggleSource
    \/ ProcessCheckedItems
    \/ CollectAndWriteTodos

Spec == Init /\ [][Next]_vars

-----------------------------------------------------------------------------
(* Claims about a reconciliation pass *)

\* the document with the check box that starts at position i set to mark:
\* what a literal rewrite of "- [ ] <task>" / "- [x] <task>" at i leaves
FlipMark(content, i, mark) == [content EXCEPT ![i + 3] = mark]

NewlyChecked   == Range(last.checkedItems) \ Range(last.prev)
NewlyUnchecked == Range(last.prev) \ Range(last.checkedItems)

\* the calls of updateSourceTask of the last pass for one document
RewritesOf(f) == { k \in 1..Len(last.rewrites) : last.rewrites[k].file = f }

\* C1 (as claimed): after a reconciliation pass, every newly-checked item
\* whose [[Source]] resolves to a document that held "- [ ] <task>" has had
\* exactly that place rewritten to "- [x] <task>", the rest of the document
\* left as it was.
C1_NewlyCheckedSync ==
    last.op = "process" =>
        /\ \A item \in NewlyChecked :
              \E k \in 1..Len(last.rewrites) :
                  last.rewrites[k].item = item /\ last.rewrites[k].checked
        /\ \A k \in 1..Len(last.rewrites) :
              LET r == last.rewrites[k]
              IN  (r.checked /\ r.file # 0 /\ Includes(r.before, UNCHECKED \o r.task))
                  => /\ r.after = FlipMark(r.before,
                                           IndexOf(r.before, UNCHECKED \o r.task), "x")
                     /\ (RewritesOf(r.file) = {k}
                            => vault[r.file].content = r.after)

\* C2 (as claimed): after a reconciliation pass, every item of the previous
\* snapshot that is no longer parsed as checked has had "- [x] <task>"
\* rewritten to "- [ ] <task>" in its source document and has no completion
\* timestamp; an item in both the snapshot and the parse caused no rewrite.
C2_NewlyUncheckedSync ==
    last.op = "process" =>
        /\ \A item \in NewlyUnchecked :
              /\ \E k \in 1..Len(last.rewrites) :
                    last.rewrites[k].item = item /\ ~last.rewrites[k].checked
              /\ LowerTrim(item) \notin DOMAIN completedTimestamps
        /\ \A k \in 1..Len(last.rewrites) :
              LET r == last.rewrites[k]
              IN  /\ (~r.checked /\ r.file # 0 /\ Includes(r.before, CHECKED \o r.task))
                        => /\ r.after = FlipMark(r.before,
                                            IndexOf(r.before, CHECKED \o r.task), " ")
                           /\ (RewritesOf(r.file) = {k}
                                  => vault[r.file].content = r.after)
                  /\ r.item \notin (Range(last.prev) \cap Range(last.checkedItems))

\* C9 (as claimed): the timestamp of a newly-checked "<task> [[Source]]" is
\* recorded under the task text alone, lower-cased, without the backlink.
C9_KeyedByTextAlone ==
    last.op = "process" =>
        \A item \in NewlyChecked :
            BacklinkMatch(item).ok
               => LowerTrim(BacklinkMatch(item).task) \in DOMAIN last.tsChecked

\* C9 (amended): the newly-checked loop records a timestamp under the whole
\* item text, lower-cased and trimmed, backlink included, and under nothing
\* else; an entry that was there is kept, a new one holds the current time.
C9_KeyedByWholeItem ==
    last.op = "process" =>
        /\ DOMAIN last.tsChecked =
              (DOMAIN last.tsBefore) \cup { LowerTrim(item) : item \in NewlyChecked }
        /\ \A item \in NewlyChecked :
              last.tsChecked[LowerTrim(item)] =
                 IF Truthy(last.tsBefore, LowerTrim(item))
                 THEN last.tsBefore[LowerTrim(item)]
                 ELSE now

\* C9 witness: "a [[N]]" and "a [[M]]" were checked in one pass and hold a
\* timestamp each
C9_Witness ==
    /\ last.op = "process"
    /\ {<<"a", " ", "[", "[", "N", "]", "]">>, <<"a", " ", "[", "[", "M", "]", "]">>}
          \subseteq NewlyChecked
    /\ {<<"a", " ", "[", "[", "n", "]", "]">>, <<"a", " ", "[", "[", "m", "]", "]">>}
          \subseteq DOMAIN completedTimestamps

-----------------------------------------------------------------------------
(* formatOutputWithChecked applied to bounded inputs *)

\* latest value of the clock
MaxNow == 7

\* longest list of todos handed to the formatter
MaxTodos == 3

\* longest list of checked items handed to the formatter
MaxChecked == 2

\* largest decay window, in days
MaxDecay == 2

RECURSIVE SeqsUpTo(_, _)
SeqsUpTo(S, n) ==
    IF n = 0 THEN {<<>>}
    ELSE LET shorter == SeqsUpTo(S, n - 1)
         IN  shorter \cup { Append(q, x) : q \in shorter, x \in S }

NoRepeat(q) == \A i, j \in 1..Len(q) : q[i] = q[j] => i = j

Todo(text, sourceBasename) == [text |-> text, sourceBasename |-> sourceBasename]

FormatTodos == { Todo(<<"a">>, <<"N">>), Todo(<<"b">>, <<"N">>), Todo(<<"c">>, <<"N">>) }
FormatKeys  == { getItemKey(todo.text, todo.sourceBasename) : todo \in FormatTodos }

KeyA == getItemKey(<<"a">>, <<"N">>)
KeyB == getItemKey(<<"b">>, <<"N">>)

FormatChecked ==
    { <<"a", " ", "[", "[", "N", "]", "]">>,
      <<"A", " ", "[", "[", "N", "]", "]">>,
      <<"b", " ", "[", "[", "N", "]", "]">> }

\* the order lists: keys, none of them twice (reorderItem removes a key
\* before it inserts it)
OrderLists == { q \in SeqsUpTo(FormatKeys, 3) : NoRepeat(q) }

\* inputs that exercise the flat list, and the sort of the categories
OrderInputs ==
    { [todos |-> todos, checkedItems |-> <<>>,
       cfg |-> [DefaultSettings EXCEPT !.enableTimeGroups = tg],
       groups |-> gr.groups,
       order |-> [NoOrder EXCEPT !.backlog = o, !.today = gr.today],
       ts |-> EmptyMap, t |-> 1] :
         todos \in SeqsUpTo(FormatTodos, MaxTodos),
         tg \in BOOLEAN,
         o \in OrderLists,
         gr \in { [groups |-> EmptyMap, today |-> <<>>],
                  [groups |-> [k \in {KeyA, KeyB} |-> "today"],
                   today |-> <<KeyB, KeyA>>] } }

\* completedTimestamps at time t: the one key completed at time 1, the other
\* just now
Stamps(t) ==
    { [k \in K |-> IF k = KeyA THEN 1 ELSE t] : K \in SUBSET {KeyA, KeyB} }

\* inputs that exercise the completed section and its decay, in grouped mode
\* with and without the countdown, and in flat mode
DecayInputs ==
    { [todos |-> <<Todo(<<"a">>, <<"N">>), Todo(<<"c">>, <<"N">>)>>,
       checkedItems |-> checked,
       cfg |-> [DefaultSettings EXCEPT !.enableTimeGroups = m.tg,
                                       !.decayDays = d,
                                       !.showDecayCountdown = m.c],
       groups |-> EmptyMap, order |-> NoOrder,
       ts |-> x.ts, t |-> x.t] :
         checked \in SeqsUpTo(FormatChecked, MaxChecked),
         d \in 0..MaxDecay,
         m \in { [tg |-> TRUE, c |-> TRUE], [tg |-> TRUE, c |-> FALSE],
                 [tg |-> FALSE, c |-> TRUE] },
         x \in UNION { { [t |-> t, ts |-> k] : k \in Stamps(t) } : t \in 1..MaxNow } }

FormatInit ==
    /\ \E in \in OrderInputs \cup DecayInputs :
         /\ call = [fn |-> "formatOutputWithChecked",
                    todos |-> in.todos, checkedItems |-> in.checkedItems]
         /\ settings = in.cfg
         /\ itemGroups = in.groups
         /\ itemOrder = in.order
         /\ completedTimestamps = in.ts
         /\ now = in.t
    /\ ret = NoRet
    /\ vault = <<>>
    /\ output = NoOutput
    /\ previousCheckedItems = <<>>
    /\ saved = Persisted(EmptyMap, NoOrder, EmptyMap)
    /\ edits = 0
    /\ last = NoLast
    /\ AsyncIdle

ApplyFormat(fmt) ==
    /\ ret' = [done |-> TRUE, output |-> fmt.output]
    /\ completedTimestamps' = fmt.ts

CallFormatOutputWithChecked ==
    /\ call.fn = "formatOutputWithChecked" /\ ~ret.done
    /\ ApplyFormat(formatOutputWithChecked(call.todos, call.checkedItems, settings,
                                           itemGroups, itemOrder,
                                           completedTimestamps, now))
    /\ last' = [NoLast EXCEPT !.op = "format", !.tsBefore = completedTimestamps]
    /\ UNCHANGED <<vault, output, previousCheckedItems, itemGroups, itemOrder,
                   settings, saved, now, edits, call>>
    /\ UNCHANGED asyncVars

FormatNext == CallFormatOutputWithChecked

SpecFormat == FormatInit /\ [][FormatNext]_vars

Formatted == call.fn = "formatOutputWithChecked" /\ ret.done

\* the task lines under the "## <header>" of category g in the rendered lines
SectionOf(lines, g) ==
    LET h    == CHOOSE i \in 1..Len(lines) :
                   StartsWith(lines[i], <<"#", "#", " ">> \o TIME_GROUP_HEADERS(g))
        stop == SetMin({ j \in (h + 2)..(Len(lines) + 1) :
                           j = Len(lines) + 1 \/ ~StartsWith(lines[j], UNCHECKED) })
    IN  SubSeq(lines, h + 2, stop - 1)

\* the todos of category g in discovery order
Discovered(todos, g) ==
    SelectSeq(todos, LAMBDA todo :
        GroupOf(itemGroups, getItemKey(todo.text, todo.sourceBasename)) = g)

\* first the todos whose key is in the order list, in order-list order, then
\* the others in discovery order
ListedFirst(mine, order) ==
    Concat([k \in 1..Len(order) |->
              SelectSeq(mine, LAMBDA todo :
                  getItemKey(todo.text, todo.sourceBasename) = order[k])])
    \o SelectSeq(mine, LAMBDA todo :
          getItemKey(todo.text, todo.sourceBasename) \notin Range(order))

LinesOf(todos) == [i \in 1..Len(todos) |-> TodoLine(todos[i])]

\* the rendered lines hold, under every category, the expected items
SectionsListedFirst(lines) ==
    \A g \in TimeGroup :
        SectionOf(lines, g) =
            LinesOf(ListedFirst(Discovered(ActiveTodos(call.todos, call.checkedItems), g),
                                itemOrder[g]))

\* C10: in grouped mode every category renders first its items whose key is
\* in the category's order list, in order-list order, then its other items
\* in discovery order (all of them in discovery order when the list is empty).
C10_OrderStability ==
    (Formatted /\ settings.enableTimeGroups) =>
        SectionsListedFirst(SplitLines(ret.output))

\* C10 witness: order list [b, a], discovered [a, b, c], rendered [b, a, c]
C10_Witness ==
    /\ Formatted /\ settings.enableTimeGroups
    /\ itemGroups = EmptyMap
    /\ itemOrder.backlog = <<KeyB, KeyA>>
    /\ call.todos = <<Todo(<<"a">>, <<"N">>), Todo(<<"b">>, <<"N">>), Todo(<<"c">>, <<"N">>)>>
    /\ SectionOf(SplitLines(ret.output), "backlog") =
          LinesOf(<<Todo(<<"b">>, <<"N">>), Todo(<<"a">>, <<"N">>), Todo(<<"c">>, <<"N">>)>>)

\* the checked items whose timestamp key is key
Occurrences(key) ==
    { j \in 1..Len(call.checkedItems) : LowerTrim(call.checkedItems[j]) = key }

\* the lines of the completed section that render an item of that key
RenderedOf(lines, key) ==
    { i \in 1..Len(lines) :
        \E j \in Occurrences(key) :
            \/ lines[i] = CHECKED \o call.checkedItems[j]
            \/ StartsWith(lines[i], CHECKED \o call.checkedItems[j] \o <<" ", "(">>) }

\* whole days between the completion of key and the call
ElapsedDays(key) == (now - last.tsBefore[key]) \div DayMs

DecayCase ==
    /\ Formatted
    /\ settings.enableTimeGroups /\ settings.showCheckedSection
    /\ settings.decayDays > 0

CheckedKeys == { LowerTrim(call.checkedItems[j]) : j \in 1..Len(call.checkedItems) }

\* dropped after the window: elapsed > d
DropsWhenElapsedExceeds(lines) ==
    \A key \in CheckedKeys :
        Truthy(last.tsBefore, key) =>
            IF ElapsedDays(key) > settings.decayDays
            THEN /\ RenderedOf(lines, key) = {}
                 /\ key \notin DOMAIN completedTimestamps
            ELSE /\ RenderedOf(lines, key) # {}
                 /\ key \in DOMAIN completedTimestamps

\* dropped at the end of the window: elapsed >= d
DropsWhenElapsedReaches(lines) ==
    \A key \in CheckedKeys :
        Truthy(last.tsBefore, key) =>
            IF ElapsedDays(key) >= settings.decayDays
            THEN IF Cardinality(Occurrences(key)) = 1
                 THEN /\ RenderedOf(lines, key) = {}
                      /\ key \notin DOMAIN completedTimestamps
                 ELSE /\ Cardinality(RenderedOf(lines, key))
                            = Cardinality(Occurrences(key)) - 1
                      /\ key \in DOMAIN completedTimestamps
                      /\ completedTimestamps[key] = now
            ELSE /\ Cardinality(RenderedOf(lines, key))
                       = Cardinality(Occurrences(key))
                 /\ key \in DOMAIN completedTimestamps
                 /\ completedTimestamps[key] = last.tsBefore[key]

\* C8 (as claimed): with decayDays = d > 0 a checked item that has a
\* timestamp is dropped and its timestamp purged exactly when its elapsed
\* whole days exceed d; with elapsed <= d it is rendered.
C8_DropsWhenElapsedExceeds ==
    DecayCase => DropsWhenElapsedExceeds(SplitLines(ret.output))

\* C8 (amended): a checked item that has a timestamp and whose key no other
\* checked item shares is dropped and its timestamp purged exactly when its
\* elapsed whole days have reached d (elapsed >= d); with elapsed < d it is
\* rendered and its timestamp kept.  When n > 1 checked items share the key
\* and elapsed >= d, the first is dropped and the others are stamped with the
\* current time and rendered.
C8_DropsWhenElapsedReaches ==
    DecayCase => DropsWhenElapsedReaches(SplitLines(ret.output))

\* C8 witness: d = 2 and exactly two whole days elapsed: the item is gone
C8_Witness ==
    /\ DecayCase
    /\ settings.decayDays = 2
    /\ call.checkedItems = << <<"a", " ", "[", "[", "N", "]", "]">> >>
    /\ Truthy(last.tsBefore, KeyA)
    /\ ElapsedDays(KeyA) = 2
    /\ RenderedOf(SplitLines(ret.output), KeyA) = {}
    /\ KeyA \notin DOMAIN completedTimestamps

-----------------------------------------------------------------------------
(* The event loop: handlers, timers and passes, one step per await *)

\* events the user causes
MaxEvents == 2

\* passes in flight at the same time
MaxPasses == 2

\* the delay of each setTimeout, in ms; the layout-ready callback has none
Delay(fn) ==
    CASE fn = "layout"  -> 0
      [] fn = "drop"    -> 50
      [] fn = "release" -> 100
      [] fn = "process" -> 500
      [] fn = "collect" -> 1000

\* a pending callback can run once no callback set before it with a delay
\* that is not longer is still pending
Fireable(i) == \A j \in 1..(i - 1) : Delay(timers[j]) > Delay(timers[i])

RemoveAt(q, i) == SubSeq(q, 1, i - 1) \o SubSeq(q, i + 1, Len(q))

\* clearTimeout(this.debounceTimer)
ClearDebounce(q) == SelectSeq(q, LAMBDA fn : fn \notin {"process", "collect"})

\* the part of the state the handlers change
Sched == [timers |-> timers, debounceTimer |-> debounceTimer, ghost |-> ghost]

SetSched(s) ==
    /\ timers' = s.timers
    /\ debounceTimer' = s.debounceTimer
    /\ ghost' = s.ghost

debouncedProcessChecked(s) ==
    [timers        |-> Append(ClearDebounce(s.timers), "process"),
     debounceTimer |-> "process",
     ghost         |-> [s.ghost EXCEPT !.process = TRUE]]

debouncedCollect(s) ==
    [timers        |-> Append(ClearDebounce(s.timers), "collect"),
     debounceTimer |-> "collect",
     ghost         |-> [s.ghost EXCEPT !.collect = TRUE]]

\* handleFileChange for a markdown document; isOutput: its path is
\* settings.outputFilePath
handleFileChange(s, isOutput, flag) ==
    IF flag THEN s
    ELSE IF isOutput THEN debouncedProcessChecked(s)
    ELSE debouncedCollect(s)

\* the flag is left as the pass has set it
ReleaseLater_Never(s) == s

\* the finally block of a pass: setTimeout(() => flag = false, 100)
ReleaseLater(s) == [s EXCEPT !.timers = Append(@, "release")]

\* the change event of a pass's own write of the aggregate, as handled
OwnWrite(s, flag) ==
    IF flag THEN s
    ELSE [debouncedProcessChecked(s) EXCEPT !.ghost.self = TRUE]

Pass(fn, pc) == [fn |-> fn, pc |-> pc, seen |-> 0]

\* processCheckedItems up to its first await
StartProcessCheckedItems ==
    IF output.exists
    THEN /\ isUpdatingOutputFile' = TRUE
         /\ passes' = Append(passes, Pass("processCheckedItems", "read"))
    ELSE UNCHANGED <<isUpdatingOutputFile, passes>>

\* collectAndWriteTodos up to its first await
StartCollectAndWriteTodos ==
    /\ isUpdatingOutputFile' = TRUE
    /\ passes' = Append(passes, Pass("collectAndWriteTodos", "collect"))

AsyncInit ==
    /\ vault = <<>>
    /\ output = NoOutput
    /\ previousCheckedItems = <<>>
    /\ itemGroups = EmptyMap
    /\ itemOrder = NoOrder
    /\ completedTimestamps = EmptyMap
    /\ settings = DefaultSettings
    /\ saved = Persisted(EmptyMap, NoOrder, EmptyMap)
    /\ now = 1
    /\ edits = 0
    /\ last = NoLast
    /\ isUpdatingOutputFile = FALSE
    /\ debounceTimer = "none"
    /\ timers = <<"layout">>
    /\ passes = <<>>
    /\ srcVersion = 0
    /\ aggVersion = 0
    /\ ghost = NoGhost
    /\ CallIdle

AsyncFrame ==
    UNCHANGED <<vault, previousCheckedItems, itemGroups, itemOrder,
                completedTimestamps, settings, saved, now, last, callVars>>

\* onLayoutReady: the first collection
LayoutReady ==
    \E i \in 1..Len(timers) :
        /\ timers[i] = "layout" /\ Fireable(i)
        /\ Len(passes) < MaxPasses
        /\ timers' = RemoveAt(timers, i)
        /\ StartCollectAndWriteTodos
        /\ UNCHANGED <<debounceTimer, ghost, output, edits, srcVersion, aggVersion>>
        /\ AsyncFrame

\* the debounce set by debouncedProcessChecked runs out
FireDebouncedProcess ==
    \E i \in 1..Len(timers) :
        /\ timers[i] = "process" /\ Fireable(i)
        /\ Len(passes) < MaxPasses
        /\ timers' = RemoveAt(timers, i)
        /\ debounceTimer' = "none"
        /\ ghost' = [ghost EXCEPT !.process = FALSE]
        /\ StartProcessCheckedItems
        /\ UNCHANGED <<output, edits, srcVersion, aggVersion>>
        /\ AsyncFrame

\* the debounce set by debouncedCollect runs out
FireDebouncedCollect ==
    \E i \in 1..Len(timers) :
        /\ timers[i] = "collect" /\ Fireable(i)
        /\ Len(passes) < MaxPasses
        /\ timers' = RemoveAt(timers, i)
        /\ debounceTimer' = "none"
        /\ ghost' = [ghost EXCEPT !.collect = FALSE]
        /\ StartCollectAndWriteTodos
        /\ UNCHANGED <<output, edits, srcVersion, aggVersion>>
        /\ AsyncFrame

\* the 50 ms timer of the drop handler runs out
FireDrop ==
    \E i \in 1..Len(timers) :
        /\ timers[i] = "drop" /\ Fireable(i)
        /\ Len(passes) < MaxPasses
        /\ timers' = RemoveAt(timers, i)
        /\ StartProcessCheckedItems
        /\ UNCHANGED <<debounceTimer, ghost, output, edits, srcVersion, aggVersion>>
        /\ AsyncFrame

\* the 100 ms timer of a finally block runs out
FireRelease ==
    \E i \in 1..Len(timers) :
        /\ timers[i] = "release" /\ Fireable(i)
        /\ timers' = RemoveAt(timers, i)
        /\ isUpdatingOutputFile' = FALSE
        /\ UNCHANGED <<debounceTimer, ghost, passes, output, edits,
                       srcVersion, aggVersion>>
        /\ AsyncFrame

\* a source document is created or saved
UserSaveSource ==
    /\ edits < MaxEvents
    /\ edits' = edits + 1
    /\ srcVersion' = srcVersion + 1
    /\ SetSched(handleFileChange(Sched, FALSE, isUpdatingOutputFile))
    /\ UNCHANGED <<isUpdatingOutputFile, passes, output, aggVersion>>
    /\ AsyncFrame

\* the aggregate document is saved after an edit of the user
UserSaveOutput ==
    /\ edits < MaxEvents
    /\ edits' = edits + 1
    /\ output.exists
    /\ SetSched(handleFileChange(
           [Sched EXCEPT !.ghost.edit = IF @ = "lost" THEN "lost" ELSE "unread"],
           TRUE, isUpdatingOutputFile))
    /\ UNCHANGED <<isUpdatingOutputFile, passes, output, srcVersion, aggVersion>>
    /\ AsyncFrame

\* a document is deleted or renamed
UserDeleteOrRename ==
    /\ edits < MaxEvents
    /\ edits' = edits + 1
    /\ srcVersion' = srcVersion + 1
    /\ SetSched(debouncedCollect(Sched))
    /\ UNCHANGED <<isUpdatingOutputFile, passes, output, aggVersion>>
    /\ AsyncFrame

\* the refresh command, a settings change, or a move of an item
UserRefresh ==
    /\ edits < MaxEvents
    /\ edits' = edits + 1
    /\ Len(passes) < MaxPasses
    /\ StartCollectAndWriteTodos
    /\ UNCHANGED <<timers, debounceTimer, ghost, output, srcVersion, aggVersion>>
    /\ AsyncFrame

\* a task line is dropped in the editor of the aggregate
UserDrop ==
    /\ edits < MaxEvents
    /\ edits' = edits + 1
    /\ output.exists
    /\ timers' = Append(timers, "drop")
    /\ UNCHANGED <<debounceTimer, ghost, isUpdatingOutputFile, passes, output,
                   srcVersion, aggVersion>>
    /\ AsyncFrame

\* processCheckedItems from the read of the aggregate to the end of the two
\* loops; wrote: updateSourceTask modified a source document; the read takes
\* in what the user has saved in the aggregate
ProcessSync ==
    \E i \in 1..Len(passes), wrote \in BOOLEAN :
        /\ passes[i].fn = "processCheckedItems" /\ passes[i].pc = "read"
        /\ passes' = [passes EXCEPT ![i].pc = "collect"]
        /\ IF wrote
           THEN SetSched(handleFileChange(
                    [Sched EXCEPT !.ghost.edit = IF @ = "unread" THEN "none" ELSE @],
                    FALSE, isUpdatingOutputFile))
           ELSE /\ ghost' = [ghost EXCEPT !.edit = IF @ = "unread" THEN "none" ELSE @]
                /\ UNCHANGED <<timers, debounceTimer>>
        /\ UNCHANGED <<isUpdatingOutputFile, output, edits, srcVersion, aggVersion>>
        /\ AsyncFrame

\* await this.collectTodos()
PassCollect ==
    \E i \in 1..Len(passes) :
        /\ passes[i].pc = "collect"
        /\ passes' = [passes EXCEPT ![i].pc = "write", ![i].seen = srcVersion]
        /\ UNCHANGED <<timers, debounceTimer, ghost, isUpdatingOutputFile,
                       output, edits, srcVersion, aggVersion>>
        /\ AsyncFrame

\* await vault.modify / vault.create of the aggregate, its change event, and
\* the finally block
PassWrite ==
    \E i \in 1..Len(passes) :
        /\ passes[i].pc = "write"
        /\ output' = [exists |-> TRUE, content |-> <<>>]
        /\ aggVersion' = passes[i].seen
        /\ SetSched(ReleaseLater(OwnWrite(
               [Sched EXCEPT !.ghost.edit = IF @ = "unread" THEN "lost" ELSE @],
               isUpdatingOutputFile)))
        /\ passes' = RemoveAt(passes, i)
        /\ UNCHANGED <<isUpdatingOutputFile, edits, srcVersion>>
        /\ AsyncFrame

\* the steps of a pass that stand inside its try block
TryBlock == {"read", "collect", "write"}

\* the read or write a pass awaits is rejected: the catch block logs the
\* error when the step stands inside the try block, otherwise the promise of
\* the pass is rejected; the finally block runs in both cases
PassThrow ==
    \E i \in 1..Len(passes) :
        /\ passes' = RemoveAt(passes, i)
        /\ SetSched([ReleaseLater(Sched) EXCEPT
                        !.ghost.threw = TRUE,
                        !.ghost.rejected = @ \/ passes[i].pc \notin TryBlock])
        /\ UNCHANGED <<isUpdatingOutputFile, output, edits, srcVersion, aggVersion>>
        /\ AsyncFrame

AsyncNext ==
    \/ LayoutReady
    \/ FireDebouncedProcess
    \/ FireDebouncedCollect
    \/ FireDrop
    \/ FireRelease
    \/ UserSaveSource
    \/ UserSaveOutput
    \/ UserDeleteOrRename
    \/ UserRefresh
    \/ UserDrop
    \/ ProcessSync
    \/ PassCollect
    \/ PassWrite
    \/ PassThrow

SpecAsync == AsyncInit /\ [][AsyncNext]_vars

\* the event loop runs every callback that is due and settles every awaited
\* read and write
FairAsync ==
    /\ SpecAsync
    /\ WF_vars(LayoutReady) /\ WF_vars(FireDrop) /\ WF_vars(FireRelease)
    /\ WF_vars(FireDebouncedProcess) /\ WF_vars(FireDebouncedCollect)
    /\ WF_vars(ProcessSync) /\ WF_vars(PassCollect) /\ WF_vars(PassWrite)

\* C3 (as claimed): while a pass is between setting the flag and the end of
\* its write of the aggregate the flag is set, and no pass's own write has
\* been turned into a scheduled reconciliation.
C3_GuardCoversEveryPass ==
    /\ passes # <<>> => isUpdatingOutputFile
    /\ ~ghost.self

\* C4 (as claimed): at most one pass is in flight.
C4_NoOverlap == Len(passes) <= 1

\* C5 (as claimed): a reconciliation scheduled by debouncedProcessChecked
\* stays pending until it runs, whatever debouncedCollect does, and a
\* collection scheduled by debouncedCollect likewise.
C5_IndependentDebounce ==
    /\ ghost.process => \E i \in 1..Len(timers) : timers[i] = "process"
    /\ ghost.collect => \E i \in 1..Len(timers) : timers[i] = "collect"

\* C6 (as claimed): once no callback is pending and no pass is in flight,
\* the aggregate has been rendered from every change of the source documents.
C6_EverySaveCollected ==
    (timers = <<>> /\ passes = <<>>) => aggVersion = srcVersion

-----------------------------------------------------------------------------
(* Group and order state: moveItemToGroup, reorderItem and the placement of
   a line under a header, on a vault of three tasks *)

\* operations on the group and order state in one behaviour
MaxMoves == 2

KeyC == getItemKey(<<"c">>, <<"N">>)

\* the keys the user drags and the headers the user drops on
DragKeys   == {KeyA, KeyB, KeyC}
DropGroups == {"today", "tomorrow"}

\* Array.prototype.splice(i, 0, x), i counted from 1
InsertAt(q, i, x) == SubSeq(q, 1, i - 1) \o <<x>> \o SubSeq(q, i, Len(q))

\* the end of moveItemToGroup's synchronous part: set the group, push the
\* key unless the target list includes it
moveItemToGroup_push(groups, order, itemKey, targetGroup) ==
    [groups |-> SetKey(groups, itemKey, targetGroup),
     order  |-> IF ArrayIndexOf(order[targetGroup], itemKey) # 0 THEN order
                ELSE [order EXCEPT ![targetGroup] = Append(@, itemKey)]]

\* moveItemToGroup up to saveSettings: [groups, order] afterwards
moveItemToGroup(groups, order, itemKey, targetGroup) ==
    moveItemToGroup_push(groups,
        [order EXCEPT ![GroupOf(groups, itemKey)] = Without(@, itemKey)],
        itemKey, targetGroup)

\* the end of reorderItem's synchronous part: indexOf, push or splice
reorderItem_insert(groups, order, draggedKey, targetKey, insertBefore, targetGroup) ==
    [groups |-> SetKey(groups, draggedKey, targetGroup),
     order  |-> IF ArrayIndexOf(order[targetGroup], targetKey) = 0
                THEN [order EXCEPT ![targetGroup] = Append(@, draggedKey)]
                ELSE [order EXCEPT ![targetGroup] =
                        InsertAt(@, ArrayIndexOf(@, targetKey)
                                      + (IF insertBefore THEN 0 ELSE 1),
                                 draggedKey)]]

\* reorderItem up to saveSettings: [groups, order] afterwards
reorderItem(groups, order, draggedKey, targetKey, insertBefore) ==
    reorderItem_insert(groups,
        [order EXCEPT ![GroupOf(groups, draggedKey)] = Without(@, draggedKey)],
        draggedKey, targetKey, insertBefore, GroupOf(groups, targetKey))

\* the order lists loadSettings finds: what earlier drops on items of the
\* backlog have saved
LoadedOrders ==
    { [NoOrder EXCEPT !.backlog = q] :
        q \in { <<>>, <<KeyA, KeyB>>, <<KeyB, KeyC>> } }

OrderInit ==
    /\ vault = << File(<<"N", ".", "m", "d">>, <<"N">>,
                       UNCHECKED \o <<"a">> \o NL \o UNCHECKED \o <<"b">> \o NL
                       \o UNCHECKED \o <<"c">>) >>
    /\ output = NoOutput
    /\ previousCheckedItems = <<>>
    /\ itemGroups = EmptyMap
    /\ itemOrder \in LoadedOrders
    /\ completedTimestamps = EmptyMap
    /\ settings = [DefaultSettings EXCEPT !.enableTimeGroups = TRUE]
    /\ saved = Persisted(EmptyMap, itemOrder, EmptyMap)
    /\ now = 1
    /\ edits = 0
    /\ last = NoLast
    /\ AsyncIdle /\ CallIdle

\* the header line of category g in the lines of the aggregate
HeaderIndex(lines, g) ==
    CHOOSE i \in 1..Len(lines) :
        StartsWith(lines[i], <<"#", "#", " ">> \o TIME_GROUP_HEADERS(g))

\* the line put first under the header of g
PutUnder(lines, line, g) == InsertAt(lines, HeaderIndex(lines, g) + 2, line)

\* the user cuts an unchecked line of the aggregate and pastes it under
\* another header
UserMoveLine ==
    /\ edits < MaxMoves
    /\ edits' = edits + 1
    /\ output.exists
    /\ \E i \in 1..Len(SplitLines(output.content)), g \in DropGroups :
         /\ StartsWith(SplitLines(output.content)[i], UNCHECKED)
         /\ output' = [output EXCEPT !.content =
               JoinLines(PutUnder(RemoveAt(SplitLines(output.content), i),
                                  SplitLines(output.content)[i], g))]
    /\ last' = [NoLast EXCEPT !.op = "edit"]
    /\ UNCHANGED <<vault, previousCheckedItems, itemGroups, itemOrder,
                   completedTimestamps, settings, saved, now>>
    /\ UNCHANGED <<asyncVars, callVars>>

\* what moveItemToGroup and reorderItem leave behind: the maps, saveSettings,
\* then collectAndWriteTodos
ApplyOrder(r) ==
    /\ itemGroups' = r.groups
    /\ itemOrder' = r.order
    /\ saved' = Persisted(r.groups, r.order, completedTimestamps)
    /\ ApplyCollect(formatOutput(collectTodos(vault, settings), settings,
                                 r.groups, r.order, completedTimestamps, now))

\* an item is dropped on the header of a category
MoveItemToGroup ==
    /\ edits < MaxMoves
    /\ edits' = edits + 1
    /\ output.exists
    /\ \E itemKey \in DragKeys, targetGroup \in DropGroups :
         /\ ApplyOrder(moveItemToGroup(itemGroups, itemOrder, itemKey, targetGroup))
         /\ call' = [fn |-> "moveItemToGroup", itemKey |-> itemKey,
                     targetGroup |-> targetGroup,
                     groups |-> itemGroups, order |-> itemOrder]
    /\ last' = [NoLast EXCEPT !.op = "move"]
    /\ UNCHANGED <<vault, previousCheckedItems, settings, now, ret>>
    /\ UNCHANGED asyncVars

\* an item is dropped on another item, above or below its middle
ReorderItem ==
    /\ edits < MaxMoves
    /\ edits' = edits + 1
    /\ output.exists
    /\ \E draggedKey \in DragKeys, targetKey \in DragKeys, insertBefore \in BOOLEAN :
         /\ draggedKey # targetKey
         /\ ApplyOrder(reorderItem(itemGroups, itemOrder, draggedKey, targetKey,
                                   insertBefore))
         /\ call' = [fn |-> "reorderItem", draggedKey |-> draggedKey,
                     targetKey |-> targetKey, insertBefore |-> insertBefore,
                     groups |-> itemGroups, order |-> itemOrder]
    /\ last' = [NoLast EXCEPT !.op = "reorder"]
    /\ UNCHANGED <<vault, previousCheckedItems, settings, now, ret>>
    /\ UNCHANGED asyncVars

OrderNext ==
    \/ CollectAndWriteTodos
    \/ UserMoveLine
    \/ ProcessCheckedItems
    \/ MoveItemToGroup
    \/ ReorderItem

SpecOrder == OrderInit /\ [][OrderNext]_vars

\* the call just made was reorderItem(d, t, TRUE) with t in the order list
\* of its category
ReorderedBefore ==
    /\ last.op = "reorder"
    /\ call.insertBefore
    /\ ArrayIndexOf(call.order[GroupOf(call.groups, call.targetKey)], call.targetKey) # 0

\* C11 (as claimed): after reorderItem(d, t, TRUE), t being in the order list
\* of its category, d is in that list exactly once, immediately before t, d
\* has t's category, and the other keys of the list are in the order they had.
C11_ReorderBefore ==
    ReorderedBefore =>
        LET g    == GroupOf(call.groups, call.targetKey)
            list == itemOrder[g]
            at   == { i \in 1..Len(list) : list[i] = call.draggedKey }
        IN  /\ Cardinality(at) = 1
            /\ \A i \in at : i < Len(list) /\ list[i + 1] = call.targetKey
            /\ GroupOf(itemGroups, call.draggedKey) = g
            /\ Without(list, call.draggedKey) = Without(call.order[g], call.draggedKey)

-----------------------------------------------------------------------------
(* collectTodos applied to bounded vaults and exclusion lists *)

\* longest list of excluded folders
MaxFolders == 2

\* the documents a vault is made of: the aggregate, one document in folder
\* t, one in folder t2, one at the top
CollectFiles ==
    << File(<<"T", ".", "m", "d">>, <<"T">>, UNCHECKED \o <<"o">>),
       File(<<"t", "/", "a", ".", "m", "d">>, <<"a">>, UNCHECKED \o <<"x">>),
       File(<<"t", "2", "/", "a", ".", "m", "d">>, <<"a">>,
            <<" ", " ">> \o UNCHECKED \o <<"y", " ">> \o NL \o CHECKED \o <<"z">>),
       File(<<"b", ".", "m", "d">>, <<"b">>,
            UNCHECKED \o <<"w">> \o NL \o <<"n", "o">> \o NL \o UNCHECKED \o <<"v">>) >>

\* the folder names an exclusion list is drawn from
FolderNames ==
    { <<>>, <<"t">>, <<"t", "2">>, <<"t", "/">>, <<"b", ".", "m", "d">> }

\* a vault holding any of CollectFiles, in that order, and any exclusion list
CollectInit ==
    /\ DataIdle /\ AsyncIdle
    /\ call \in { [fn |-> "collectTodos",
                   files |-> SelectSeq(CollectFiles, LAMBDA f : f \in F),
                   cfg |-> [DefaultSettings EXCEPT !.excludeFolders = folders]] :
                     F \in SUBSET Range(CollectFiles),
                     folders \in SeqsUpTo(FolderNames, MaxFolders) }
    /\ ret = NoRet

CallCollectTodos ==
    /\ call.fn = "collectTodos" /\ ~ret.done
    /\ ret' = [done |-> TRUE, todos |-> collectTodos(call.files, call.cfg)]
    /\ UNCHANGED <<call, dataVars, asyncVars>>

SpecCollect == CollectInit /\ [][CallCollectTodos]_vars

\* the unchecked items written in each document of CollectFiles
WrittenItems(path) ==
    CASE path = <<"T", ".", "m", "d">>                -> << <<"o">> >>
      [] path = <<"t", "/", "a", ".", "m", "d">>      -> << <<"x">> >>
      [] path = <<"t", "2", "/", "a", ".", "m", "d">> -> << <<"y">> >>
      [] path = <<"b", ".", "m", "d">>                -> << <<"w">>, <<"v">> >>

\* the path is a listed folder, or lies under one
UnderExcluded(path, folders) ==
    \E k \in 1..Len(folders) :
        /\ folders[k] # <<>>
        /\ \/ path = folders[k]
           \/ /\ Len(path) > Len(folders[k])
              /\ SubSeq(path, 1, Len(folders[k]) + 1) = folders[k] \o <<"/">>

\* the items of the documents that are neither the aggregate nor excluded,
\* in document order
ItemsOfOthers(files) ==
    Concat([i \in 1..Len(files) |->
              IF files[i].path = call.cfg.outputFilePath
                 \/ UnderExcluded(files[i].path, call.cfg.excludeFolders)
              THEN <<>>
              ELSE [j \in 1..Len(WrittenItems(files[i].path)) |->
                      Todo(WrittenItems(files[i].path)[j], files[i].basename)]])

\* C12: collectTodos yields no item of the output document nor of a document
\* whose path is an excluded folder or starts with folder + "/", and yields
\* every unchecked item of every other document; a folder that is only a
\* string prefix, or is empty, excludes nothing.
C12_Exclusion ==
    (call.fn = "collectTodos" /\ ret.done) => ret.todos = ItemsOfOthers(call.files)

\* C12 witness: folder t excluded; the vault holds t/a.md, t2/a.md and b.md;
\* the items of t2/a.md and b.md are collected, the one of t/a.md is not
C12_Witness ==
    /\ call.fn = "collectTodos" /\ ret.done
    /\ call.cfg.excludeFolders = << <<"t">> >>
    /\ call.files = CollectFiles
    /\ ret.todos = << Todo(<<"y">>, <<"a">>), Todo(<<"w">>, <<"b">>), Todo(<<"v">>, <<"b">>) >>

-----------------------------------------------------------------------------
(* Category default, duplicates and the empty corpus, on SpecFormat *)

\* every active item of no group entry is under Backlog, and only there
UnderBacklogOnly(lines, active) ==
    \A i \in 1..Len(active) :
        getItemKey(active[i].text, active[i].sourceBasename) \notin DOMAIN itemGroups =>
            /\ TodoLine(active[i]) \in Range(SectionOf(lines, "backlog"))
            /\ \A g \in TimeGroup \ {"backlog"} :
                  TodoLine(active[i]) \notin Range(SectionOf(lines, g))

\* C13: in grouped mode every active item whose key has no entry in the
\* group map is rendered under the Backlog header and under no other header.
C13_CategoryDefault ==
    (Formatted /\ settings.enableTimeGroups) =>
        UnderBacklogOnly(SplitLines(ret.output),
                         ActiveTodos(call.todos, call.checkedItems))

\* C13 witness: a is assigned to Today, c has no entry; a is rendered under
\* Today and c under Backlog
C13_Witness ==
    /\ Formatted /\ settings.enableTimeGroups
    /\ KeyA \in DOMAIN itemGroups
    /\ call.todos = <<Todo(<<"a">>, <<"N">>), Todo(<<"c">>, <<"N">>)>>
    /\ SectionOf(SplitLines(ret.output), "today") = LinesOf(<<Todo(<<"a">>, <<"N">>)>>)
    /\ SectionOf(SplitLines(ret.output), "backlog") = LinesOf(<<Todo(<<"c">>, <<"N">>)>>)

\* the key of an unchecked line: its text behind the mark, lower case, trimmed
UncheckedKey(line) == LowerTrim(SubSeq(line, Len(UNCHECKED) + 1, Len(line)))

\* no two unchecked lines have one key
OneLinePerKey(lines) ==
    \A i, j \in 1..Len(lines) :
        (i < j /\ StartsWith(lines[i], UNCHECKED) /\ StartsWith(lines[j], UNCHECKED)) =>
            UncheckedKey(lines[i]) # UncheckedKey(lines[j])

\* C14 (as claimed): items of one ItemKey are rendered as a single unchecked
\* line, so the rendered aggregate never holds two unchecked lines of one key.
C14_DuplicatesCollapse ==
    Formatted => OneLinePerKey(SplitLines(ret.output))

\* the lines that are not empty
NonEmptyLines(lines) == SelectSeq(lines, LAMBDA l : l # <<>>)

EmptyCorpus == Formatted /\ call.todos = <<>> /\ call.checkedItems = <<>>

\* C16: with no collected item and no checked item, flat mode renders no item
\* line, and grouped mode renders exactly the headers Today, Tomorrow,
\* Next 7 Days, Backlog in that order, without counts and without item lines.
C16_EmptyCorpus ==
    EmptyCorpus =>
        NonEmptyLines(SplitLines(ret.output)) =
            IF settings.enableTimeGroups
            THEN << <<"#", "#", " ", "T", "o", "d", "a", "y">>,
                    <<"#", "#", " ", "T", "o", "m", "o", "r", "r", "o", "w">>,
                    <<"#", "#", " ", "N", "e", "x", "t", " ", "7", " ", "D", "a", "y", "s">>,
                    <<"#", "#", " ", "B", "a", "c", "k", "l", "o", "g">> >>
            ELSE <<>>

\* C16 witness: the empty corpus rendered in grouped mode as four lines
C16_Witness ==
    /\ EmptyCorpus /\ settings.enableTimeGroups
    /\ Len(NonEmptyLines(SplitLines(ret.output))) = 4

-----------------------------------------------------------------------------
(* Collection run twice, on Spec *)

\* collectAndWriteTodos has just run, directly after a run of itself
CollectedTwice == last.op = "collect" /\ last.before = "collect"

\* C15: collectAndWriteTodos run twice in a row, with no change in between
\* to a source document, the settings or the group and order state, writes
\* the same content both times.
C15_CollectIdempotent ==
    CollectedTwice => output.content = last.output

\* C15 witness: the second of two runs has written the three tasks again
C15_Witness ==
    /\ CollectedTwice
    /\ ~settings.enableTimeGroups
    /\ output.content = last.output
    /\ Len(SplitLines(output.content)) >= 3

-----------------------------------------------------------------------------
(* The completed section read back, and the saved record, on Spec *)

\* the items of the "- [x] " lines of a text
CheckedLinesOf(lines) ==
    { Trim(SubSeq(lines[i], Len(CHECKED) + 1, Len(lines[i]))) :
        i \in { j \in 1..Len(lines) : StartsWith(lines[j], CHECKED) } }

\* a pass has read an aggregate that does not begin with a "---" line
NoLeadingRule(lines) ==
    last.op = "process" /\ (lines = <<>> \/ Trim(lines[1]) # RULE)

\* C17 (as claimed): when the aggregate does not begin with a "---" line no
\* line is skipped as frontmatter, so every "- [x]" line of the aggregate,
\* those behind the "---" rule of the completed section included, is recorded
\* in the checked-items list by the pass that reads it.
C17_CompletedSectionRead ==
    NoLeadingRule(SplitLines(last.output)) =>
        CheckedLinesOf(SplitLines(last.output)) \subseteq Range(last.checkedItems)

\* C18 (as claimed): once a reconciliation pass has completed, the record
\* saved in the settings store equals the in-memory group map, order lists
\* and completion timestamps.
C18_SavedTracksMemory ==
    last.op = "process" =>
        saved = Persisted(itemGroups, itemOrder, completedTimestamps)

-----------------------------------------------------------------------------
(* processCheckedItems applied to aggregates the user has written *)

\* longest body of an aggregate
MaxLines == 3

\* the lines a body is made of: a header in another case with a count, a
\* header of no category, a header named like an inherited property, a rule,
\* two unchecked items
ScanLineSet ==
    { <<"#", "#", " ", "t", "o", "d", "a", "y", " ", "(", "3", ")">>,
      <<"#", "#", " ", "L", "a", "t", "e", "r">>,
      <<"#", "#", " ", "c", "o", "n", "s", "t", "r", "u", "c", "t", "o", "r">>,
      RULE,
      UNCHECKED \o <<"a">> \o LinkOpen \o <<"N">> \o LinkClose,
      UNCHECKED \o <<"b">> \o LinkOpen \o <<"N">> \o LinkClose }

\* a body behind nothing, behind an empty metadata block, or behind a title
ScanAggregates ==
    { JoinLines(p \o b) :
        p \in { <<>>, <<RULE, RULE>>, << <<"T">> >> },
        b \in SeqsUpTo(ScanLineSet, MaxLines) }

ScanInit ==
    /\ vault = << File(<<"N", ".", "m", "d">>, <<"N">>,
                       UNCHECKED \o <<"a">> \o NL \o UNCHECKED \o <<"b">>) >>
    /\ output \in { [exists |-> TRUE, content |-> c] : c \in ScanAggregates }
    /\ previousCheckedItems = <<>>
    /\ itemGroups \in { EmptyMap, SetKey(EmptyMap, KeyA, "tomorrow") }
    /\ itemOrder = NoOrder
    /\ completedTimestamps = EmptyMap
    /\ settings \in InitSettings
    /\ saved = Persisted(itemGroups, NoOrder, EmptyMap)
    /\ now = 1
    /\ edits = 0
    /\ last = NoLast
    /\ AsyncIdle /\ CallIdle

SpecScan == ScanInit /\ [][ProcessCheckedItems]_vars

\* the last line of a leading metadata block: 0 when the text does not begin
\* with a rule, the last line of all when the block is never closed
BlockEnd(lines) ==
    IF lines = <<>> \/ Trim(lines[1]) # RULE THEN 0
    ELSE SetMin({ j \in 2..Len(lines) : Trim(lines[j]) = RULE } \cup {Len(lines)})

\* the category a header line names, "none" when it names none: the label
\* without a trailing " (<count>)", compared without regard to case
LabelGroup(line) ==
    LET label == ToLowerCase(StripCount(SubSeq(Trim(line), 4, Len(Trim(line)))))
        G     == { g \in TimeGroup : ToLowerCase(TIME_GROUP_HEADERS(g)) = label }
    IN  IF G = {} THEN "none" ELSE CHOOSE g \in G : TRUE

\* the category line i stands under: that of the nearest header above it,
\* none before any header, behind a rule or inside the metadata block
SectionAt(lines, i, fm) ==
    LET M == { j \in (fm + 1)..(i - 1) :
                 \/ StartsWith(Trim(lines[j]), <<"#", "#", " ">>)
                 \/ Trim(lines[j]) = RULE }
    IN  IF i <= fm \/ M = {} \/ Trim(lines[SetMax(M \cup {1})]) = RULE THEN "none"
        ELSE LabelGroup(lines[SetMax(M)])

\* the unchecked lines of key k that stand under a category
Placed(lines, k, fm) ==
    { i \in 1..Len(lines) :
        /\ StartsWith(Trim(lines[i]), UNCHECKED)
        /\ UncheckedKey(Trim(lines[i])) = k
        /\ SectionAt(lines, i, fm) # "none" }

\* the group map is the one before the pass, but for the keys placed under a
\* category, which have the category of their last placement
GroupsFollowPlacement(lines, fm) ==
    LET keys == { UncheckedKey(Trim(lines[i])) :
                    i \in { j \in 1..Len(lines) : StartsWith(Trim(lines[j]), UNCHECKED) } }
        set  == { k \in keys : Placed(lines, k, fm) # {} }
    IN  /\ DOMAIN itemGroups = DOMAIN last.groups \cup set
        /\ \A k \in DOMAIN itemGroups :
              itemGroups[k] = IF k \in set
                              THEN SectionAt(lines, SetMax(Placed(lines, k, fm)), fm)
                              ELSE last.groups[k]

\* C20 (as claimed): in a pass with grouped mode on, an unchecked line under
\* a recognized category header (label compared without regard to case, a
\* trailing " (<count>)" stripped) sets the item's group to that category;
\* unchecked lines under an unrecognized header, before any header or behind
\* a rule that follows the metadata block, and all lines when grouped mode is
\* off, leave the group map as it was.
C20_PlacementDrivesGroups ==
    last.op = "process" =>
        IF settings.enableTimeGroups
        THEN GroupsFollowPlacement(SplitLines(last.output),
                                   BlockEnd(SplitLines(last.output)))
        ELSE itemGroups = last.groups

-----------------------------------------------------------------------------
(* Exceptions inside a pass, on FairAsync *)

\* C19: an exception thrown by a read or write inside processCheckedItems or
\* collectAndWriteTodos does not leave the pass, and the flag a pass has set
\* becomes false again once the pass has finished, normally or by exception.
C19_FlagReleased ==
    /\ [](~ghost.rejected)
    /\ (isUpdatingOutputFile ~> ~isUpdatingOutputFile)

\* C19 witness: a pass has thrown, its release timer has run and the flag is
\* false, with nothing left to run
C19_Witness ==
    /\ ghost.threw /\ ~ghost.rejected
    /\ passes = <<>> /\ timers = <<>>
    /\ ~isUpdatingOutputFile

-----------------------------------------------------------------------------
(* Checked items and the active list, on SpecFormat *)

\* no unchecked line has the key of a checked item, nor that of the text of
\* a rendered "- [x]" line
NoneBothWays(lines) ==
    \A i \in 1..Len(lines) :
        StartsWith(lines[i], UNCHECKED) =>
            /\ UncheckedKey(lines[i]) \notin CheckedKeys
            /\ \A j \in 1..Len(lines) :
                  StartsWith(lines[j], CHECKED) =>
                      UncheckedKey(lines[i]) #
                          LowerTrim(SubSeq(lines[j], Len(CHECKED) + 1, Len(lines[j])))

\* C21: in a document rendered by formatOutputWithChecked no collected item
\* whose key is lowercase(trim(c)) for a checked item c is rendered as an
\* unchecked line, so no item is rendered both unchecked and checked.
C21_CheckedNotActive ==
    Formatted => NoneBothWays(SplitLines(ret.output))

\* C21 witness: a and c are collected, "a [[N]]" is checked and still shown;
\* c is rendered unchecked, a only as a checked line
C21_Witness ==
    /\ Formatted
    /\ call.checkedItems = << <<"a">> \o LinkOpen \o <<"N">> \o LinkClose >>
    /\ settings.decayDays = 0
    /\ TodoLine(Todo(<<"c">>, <<"N">>)) \in Range(SplitLines(ret.output))
    /\ TodoLine(Todo(<<"a">>, <<"N">>)) \notin Range(SplitLines(ret.output))
    /\ CHECKED \o call.checkedItems[1] \in Range(SplitLines(ret.output))

-----------------------------------------------------------------------------
(* The rewrite of a source document, on Spec *)

\* the mark a call of updateSourceTask looks for, and the one it writes
MarkSought(r)  == IF r.checked THEN UNCHECKED ELSE CHECKED
MarkWritten(r) == IF r.checked THEN "x" ELSE " "

\* C22 (as claimed): updateSourceTask replaces only the first occurrence of
\* the literal "- [ ] <task>" ("- [x] <task>" when unchecking) by its
\* counterpart, no character of the task text treated specially and every
\* other character left as it was; when the literal is absent, the item has
\* no backlink or the source does not resolve, nothing is written.
C22_LiteralFirstOccurrence ==
    last.op = "process" =>
        \A k \in 1..Len(last.rewrites) :
            LET r == last.rewrites[k]
            IN  IF r.file # 0 /\ Includes(r.before, MarkSought(r) \o r.task)
                THEN r.after = FlipMark(r.before,
                                        IndexOf(r.before, MarkSought(r) \o r.task),
                                        MarkWritten(r))
                ELSE r.after = r.before

-----------------------------------------------------------------------------
(* The render that follows a reorder, on SpecOrder *)

\* the keys of the lines of a section
KeysOf(sec) == [i \in 1..Len(sec) |-> UncheckedKey(sec[i])]

\* d stands next to t in the section, on the side asked for
NextTo(keys, d, t, insertBefore) ==
    (ArrayIndexOf(keys, d) # 0 /\ ArrayIndexOf(keys, t) # 0) =>
        IF insertBefore
        THEN ArrayIndexOf(keys, d) + 1 = ArrayIndexOf(keys, t)
        ELSE ArrayIndexOf(keys, d) = ArrayIndexOf(keys, t) + 1

\* C23 (as claimed): after reorderItem(d, t, insertBefore) the next grouped
\* render places d immediately before t when insertBefore is true and
\* immediately after t when it is false, for every t of the target category,
\* also one that is in no order list.
C23_RenderedNextToTarget ==
    (last.op = "reorder" /\ output.exists) =>
        NextTo(KeysOf(SectionOf(SplitLines(output.content),
                                GroupOf(call.groups, call.targetKey))),
               call.draggedKey, call.targetKey, call.insertBefore)

-----------------------------------------------------------------------------
(* moveItemToGroup, on SpecOrder *)

\* how often key k occurs in list q
CountIn(q, k) == Cardinality({ i \in 1..Len(q) : q[i] = k })

\* k is assigned to g, is the last element of g's list and nowhere else
MovedTo(k, g) ==
    /\ GroupOf(itemGroups, k) = g /\ k \in DOMAIN itemGroups
    /\ CountIn(itemOrder[g], k) = 1
    /\ itemOrder[g][Len(itemOrder[g])] = k
    /\ \A h \in TimeGroup \ {g} : CountIn(itemOrder[h], k) = 0

\* the assignment and the relative order of every other key are as before
OthersKept(k) ==
    /\ \A h \in TimeGroup : Without(itemOrder[h], k) = Without(call.order[h], k)
    /\ DOMAIN itemGroups \ {k} = DOMAIN call.groups \ {k}
    /\ \A x \in DOMAIN itemGroups \ {k} : itemGroups[x] = call.groups[x]

\* C24 (as claimed): after moveItemToGroup(k, g), k is assigned to g, occurs
\* exactly once in g's order list, as its last element, and in no other
\* category's list, and the assignment and relative order of every other key
\* are unchanged.
C24_MoveEffectAndFrame ==
    last.op = "move" =>
        MovedTo(call.itemKey, call.targetGroup) /\ OthersKept(call.itemKey)

-----------------------------------------------------------------------------
(* Checked items without a timestamp, on SpecFormat *)

\* "<N> days left", "1 day left"
DaysLeftText(n) ==
    IF n = 1 THEN <<"1", " ", "d", "a", "y", " ", "l", "e", "f", "t">>
    ELSE IntToStr(n) \o <<" ", "d", "a", "y", "s", " ", "l", "e", "f", "t">>

\* the line of a checked item that has all of decayDays left
FullLine(item) ==
    IF settings.showDecayCountdown
    THEN CHECKED \o item \o <<" ", "(">> \o DaysLeftText(settings.decayDays) \o <<")">>
    ELSE CHECKED \o item

\* the checked items that had no timestamp before the render
Unstamped ==
    { j \in 1..Len(call.checkedItems) :
        LowerTrim(call.checkedItems[j]) \notin DOMAIN last.tsBefore }

\* every item without a timestamp is rendered with all days left and stamped
\* with the instant of the render
StampedNotDropped(lines) ==
    \A j \in Unstamped :
        /\ FullLine(call.checkedItems[j]) \in Range(lines)
        /\ LowerTrim(call.checkedItems[j]) \in DOMAIN completedTimestamps
        /\ completedTimestamps[LowerTrim(call.checkedItems[j])] = now

\* C25: in grouped mode with decay enabled and the completed section shown, a
\* checked item with no completion timestamp is rendered in the completed
\* section with all of decayDays left and gets the render instant as its
\* timestamp; flat mode never drops a checked item by decay.
C25_StampedNotDropped ==
    (Formatted /\ settings.showCheckedSection) =>
        IF settings.enableTimeGroups
        THEN settings.decayDays > 0 => StampedNotDropped(SplitLines(ret.output))
        ELSE \A j \in 1..Len(call.checkedItems) :
                CHECKED \o call.checkedItems[j] \in Range(SplitLines(ret.output))

\* C25 witness: decay of 2 days with countdown, "b [[N]]" checked and never
\* stamped; it is rendered with "(2 days left)" and stamped with the instant
C25_Witness ==
    /\ DecayCase /\ settings.decayDays = 2 /\ settings.showDecayCountdown
    /\ call.checkedItems = << <<"b">> \o LinkOpen \o <<"N">> \o LinkClose >>
    /\ last.tsBefore = EmptyMap
    /\ now = 3
    /\ completedTimestamps = SetKey(EmptyMap, KeyB, 3)
    /\ CHECKED \o call.checkedItems[1]
          \o <<" ", "(", "2", " ", "d", "a", "y", "s", " ", "l", "e", "f", "t", ")">>
          \in Range(SplitLines(ret.output))

-----------------------------------------------------------------------------
(* Two reconciliation passes in a row, on Spec *)

\* the items whose source line a pass has turned to the given mark
Turned(rec, checked) ==
    { rec.rewrites[k].item :
        k \in { j \in 1..Len(rec.rewrites) :
                  /\ rec.rewrites[j].checked = checked
                  /\ rec.rewrites[j].file # 0
                  /\ rec.rewrites[j].after # rec.rewrites[j].before } }

\* a pass that follows a pass, with no action of the user in between
PassAfterPass == last.op = "process" /\ last'.op = "process"

\* C26 (as claimed): a source line that a reconciliation pass has rewritten
\* to "- [x] <task>" is rewritten back to "- [ ] <task>" only if the user has
\* removed the check mark of that item in the aggregate since; so a pass that
\* follows the checking pass with no action of the user in between turns no
\* such line back.
C26_NoSpuriousUncheck ==
    [][PassAfterPass => Turned(last, TRUE) \cap Turned(last', FALSE) = {}]_vars

-----------------------------------------------------------------------------
(* The completed section after a collection pass, on Spec *)

\* C27 (as claimed): if the checked-items snapshot is not empty and
\* showCheckedSection is on, the aggregate that a collection pass writes
\* still lists the checked items of the snapshot as "- [x]" lines.
C27_CompletedSurvivesCollect ==
    (last.op = "collect" /\ output.exists /\ settings.showCheckedSection) =>
        \A j \in 1..Len(previousCheckedItems) :
            CHECKED \o previousCheckedItems[j] \in Range(SplitLines(output.content))

-----------------------------------------------------------------------------
(* The plugin with decay of completed items on, and time that passes *)

\* grouped rendering with a decay of 1..MaxDecay days, with and without the
\* countdown
DecaySettings ==
    { [DefaultSettings EXCEPT !.enableTimeGroups = TRUE,
                              !.decayDays = d,
                              !.showDecayCountdown = c] :
        d \in 1..MaxDecay, c \in BOOLEAN }

\* the state after the collection pass of onLayoutReady at time 1
DecayInit ==
    /\ vault = << File(<<"N", ".", "m", "d">>, <<"N">>,
                       UNCHECKED \o <<"a">> \o NL \o UNCHECKED \o <<"b">>) >>
    /\ settings \in DecaySettings
    /\ output = [exists |-> TRUE,
                 content |-> formatOutput(collectTodos(vault, settings), settings,
                                          EmptyMap, NoOrder, EmptyMap, 1).output]
    /\ previousCheckedItems = <<>>
    /\ itemGroups = EmptyMap
    /\ itemOrder = NoOrder
    /\ completedTimestamps = EmptyMap
    /\ saved = Persisted(EmptyMap, NoOrder, EmptyMap)
    /\ now = 1
    /\ edits = 0
    /\ last = NoLast
    /\ AsyncIdle /\ CallIdle

\* the user puts an empty metadata block at the top of the aggregate
UserAddFrontmatter ==
    /\ edits < MaxEdits
    /\ edits' = edits + 1
    /\ output.exists
    /\ ~StartsWith(output.content, RULE)
    /\ output' = [output EXCEPT !.content = RULE \o NL \o RULE \o NL \o @]
    /\ last' = [NoLast EXCEPT !.op = "edit"]
    /\ UNCHANGED <<vault, previousCheckedItems, itemGroups, itemOrder,
                   completedTimestamps, settings, saved, now>>
    /\ UNCHANGED <<asyncVars, callVars>>

\* a day goes by with no event
DayPasses ==
    /\ now + DayMs <= MaxNow
    /\ now' = now + DayMs
    /\ UNCHANGED <<vault, output, previousCheckedItems, itemGroups, itemOrder,
                   completedTimestamps, settings, saved, edits, last>>
    /\ UNCHANGED <<asyncVars, callVars>>

DecayNext ==
    \/ UserToggleOutput
    \/ UserAddFrontmatter
    \/ DayPasses
    \/ ProcessCheckedItems

SpecDecay == DecayInit /\ [][DecayNext]_vars

\* the completed line of an item with n days left, as the formatter writes it
CountdownLine(item, n) == CHECKED \o item \o <<" ", "(">> \o DaysLeftText(n) \o <<")">>

\* the items of the snapshot with a countdown line in a text
CountedDown(lines) ==
    { j \in 1..Len(last.prev) :
        \E n \in 1..MaxDecay : CountdownLine(last.prev[j], n) \in Range(lines) }

\* the completed section of a text is read: the text begins with a closed
\* metadata block, so its later "---" lines are no frontmatter
SectionRead(lines) ==
    /\ Len(lines) >= 2
    /\ Trim(lines[1]) = RULE
    /\ Trim(lines[2]) = RULE

\* C28 (as claimed): a completed line rendered with a countdown,
\* "- [x] <task> [[<source>]] (<N> days left)", is parsed by the next
\* reconciliation pass as the same checked item "<task> [[<source>]]": the
\* item is in the parse again, it is not newly checked and no timestamp is
\* added for it.  Stated for the aggregates whose completed section the pass
\* reads at all.
C28_CountdownRoundTrip ==
    (last.op = "process" /\ SectionRead(SplitLines(last.output))) =>
        \A j \in CountedDown(SplitLines(last.output)) :
            /\ last.prev[j] \in Range(last.checkedItems)
            /\ NewlyChecked = {}
            /\ DOMAIN last.tsChecked \subseteq DOMAIN last.tsBefore

\* the items the last pass has parsed as checked and its render has dropped
\* from the completed section
Expired ==
    { item \in Range(last.checkedItems) :
        \A line \in Range(SplitLines(output.content)) :
            ~StartsWith(line, CHECKED \o item) }

\* C29 (as claimed): after a pass has dropped a completed item from the
\* completed section by decay, the pass that follows with no action of the
\* user in between does not rewrite the item's source line back to "- [ ]",
\* and the item does not come back as an unchecked line of the aggregate.
C29_ExpiredStayCompleted ==
    [][PassAfterPass =>
          \A item \in Expired :
              /\ item \notin Turned(last', FALSE)
              /\ UNCHECKED \o item \notin Range(SplitLines(output'.content))]_vars

-----------------------------------------------------------------------------
(* The order lists against the group map, on SpecOrder *)

\* how often a key occurs in the four order lists together
Listed(k) ==
    CountIn(itemOrder.today, k) + CountIn(itemOrder.tomorrow, k)
        + CountIn(itemOrder.week, k) + CountIn(itemOrder.backlog, k)

\* C30 (as claimed): after any sequence of moveItemToGroup, reorderItem and
\* reconciliation passes, every key occurs at most once across the four
\* order lists, and a key in the order list of a category is assigned to that
\* category in the group map (absent = backlog).
C30_OrderMatchesGroups ==
    \A g \in TimeGroup :
        \A i \in 1..Len(itemOrder[g]) :
            /\ Listed(itemOrder[g][i]) = 1
            /\ GroupOf(itemGroups, itemOrder[g][i]) = g

-----------------------------------------------------------------------------
(* Edits of the aggregate against the passes that overwrite it, on FairAsync *)

\* C31 (as claimed): every edit the user saves in the aggregate, one made
\* while a pass is in flight or before the flag is released included, is read
\* by a reconciliation pass before a pass overwrites the aggregate: no write
\* of the aggregate replaces an edit that no pass has read.
C31_EditsNotLost == ghost.edit # "lost"

====
